---- MODULE Spec2Model ----
(***************************************************************************)
(* State-machine model of the AML case manager                             *)
(* (src/src/monitoring/case_manager.py, class AMLCaseManager), of the AML  *)
(* alert engine and alert monitor (src/src/monitoring/alert_engine.py,     *)
(* AMLAlertEngine and AlertMonitor) and of the risk scoring engine         *)
(* (src/src/scoring/risk_engine.py, RiskScoringEngine).                    *)
(*                                                                         *)
(* Specifications: Spec (one caller of the case manager), SpecIntake       *)
(* (cases created from alerts of every type), SpecSla (the clock reaches   *)
(* the due dates), SpecThreads (several threads on one case manager),      *)
(* SpecAlerts (the alert engine evaluating one customer record),           *)
(* SpecMonitor (generate_alerts over a batch, and the alert monitor),      *)
(* SpecScoring (the risk engine scoring one customer's transactions, with  *)
(* Python's float arithmetic modelled as IEEE 754 binary64, bit for bit).  *)
(*                                                                         *)
(* The case table (self.cases) and the action log (self.case_actions) are  *)
(* pandas DataFrames that only ever grow by pd.concat(..., ignore_index)   *)
(* and are updated in place through .loc[mask, column]; they are modelled  *)
(* as sequences of records, one record per row.  A column that a row has   *)
(* never been given a value for (pandas NaN / NaT) is NaT or NoValue.      *)
(* uuid.uuid4() is modelled as a fresh number: every case and every action *)
(* consumes exactly one, so the next one is Len(cases)+Len(case_actions)+1.*)
(* datetime.now() is modelled by the variable clock, counted in seconds;   *)
(* between two reads of one handler the clock may advance by 0..MaxTick,   *)
(* and it never runs backwards.  No method of the class raises: ret.raised *)
(* records that, so that a claimed error outcome can be compared with it.  *)
(***************************************************************************)
EXTENDS Integers, Sequences, FiniteSets, TLC

\* ------------------------------------------------------------------ bounds
MaxCases   == 2     \* rows of the case table
MaxActions == 3     \* rows of the action log
MaxClock   == 1     \* largest clock value explored
MaxTick    == 1     \* largest advance of the clock between two reads
MaxThreads == 2     \* threads sharing one case manager
MaxTx      == 35    \* rows of the largest transaction set scored
MaxBatch   == 2     \* customer records in a batch given to generate_alerts
MaxAlerts  == 3     \* alerts generated, and rows of the active alerts

\* timedelta(hours=h) expressed in the clock's unit (seconds)
SecondsPerHour == 3600

VARIABLES
    cases,          \* self.cases: sequence of case rows
    case_actions,   \* self.case_actions: sequence of action rows
    clock,          \* the value datetime.now() returns next
    ret,            \* how the last call ended: operation, exception raised
                    \* ("none": it returned normally), value returned
    profile,        \* the enriched customer record given to the alert engine
    alert_ret,      \* how the alert engine's last call ended
    alert_uuids,    \* how many uuids the alert engine has drawn so far
    threads,        \* per thread: the call it is executing and where it is in it
    uuids,          \* how many uuids the threads' calls have drawn so far
    profiles,       \* the customer_profiles frame given to generate_alerts
    new_alerts,     \* the frame generate_alerts last returned to its caller
    active_alerts,  \* AlertMonitor.active_alerts: sequence of alert rows
    alert_history,  \* AlertMonitor.alert_history: sequence of alert rows
    risk_engine,    \* RiskScoringEngine: risk_weights, thresholds, tx_type_scores
    customer_data,  \* the transactions given to calculate_customer_risk_score
    score_ret       \* how the risk engine's last call ended

\* the state of the case manager and its clock
manager_vars == <<cases, case_actions, clock, ret>>

\* the state of the alert engine
engine_vars == <<profile, alert_ret, alert_uuids>>

\* the state of the threads that share one case manager
thread_vars == <<threads, uuids>>

\* the state of the alert monitor and of the caller that feeds it
monitor_vars == <<profiles, new_alerts, active_alerts, alert_history>>

\* the state of the risk scoring engine and of its caller
scoring_vars == <<risk_engine, customer_data, score_ret>>

vars == <<cases, case_actions, clock, ret, profile, alert_ret, alert_uuids,
          threads, uuids, profiles, new_alerts, active_alerts, alert_history,
          risk_engine, customer_data, score_ret>>

\* ------------------------------------------------------------ enumerations
NaT     == -1          \* a timestamp column never assigned for the row
NoValue == "NaN"       \* a text column never assigned for the row
None    == 0           \* Python's None as a return value (no uuid is 0)
UnknownCaseId == 0     \* an id uuid4 never produced

CaseStatus == {"OPEN", "IN_PROGRESS", "UNDER_REVIEW", "CLOSED", "ESCALATED"}

CaseType == {"AML_INVESTIGATION", "PEP_REVIEW", "SANCTIONS_CHECK",
             "FRAUD_INVESTIGATION", "ENHANCED_DUE_DILIGENCE"}

ActionTypes == {"CASE_CREATED", "STATUS_CHANGED", "CASE_ASSIGNED",
                "NOTES_ADDED", "CASE_CLOSED"}

\* Alerts handed to create_case_from_alert.  The first three are alerts as the
\* alert engine produces them; the last two are hand-made alerts with a LOW and
\* an unrecognized priority and an unknown alert type (the method takes any
\* mapping with these keys).
AlertPool == {
    [alert_id |-> 1, customer_id |-> "C1", alert_type |-> "PEP_DETECTED",
     priority |-> "CRITICAL", risk_level |-> "CRITICAL", details |-> "pep"],
    [alert_id |-> 2, customer_id |-> "C1", alert_type |-> "HIGH_RISK_CUSTOMER",
     priority |-> "HIGH", risk_level |-> "HIGH", details |-> "score"],
    [alert_id |-> 3, customer_id |-> "C2", alert_type |-> "LARGE_TRANSACTION",
     priority |-> "MEDIUM", risk_level |-> "MEDIUM", details |-> "volume"],
    [alert_id |-> 4, customer_id |-> "C2", alert_type |-> "SUSPICIOUS_PATTERN",
     priority |-> "LOW", risk_level |-> "HIGH", details |-> "pattern"],
    [alert_id |-> 5, customer_id |-> "C3", alert_type |-> "MANUAL_REFERRAL",
     priority |-> "URGENT", risk_level |-> "MEDIUM", details |-> "manual"] }

\* Arguments the callers pass.  new_status is an unchecked string in the code,
\* so it also takes a value outside CaseStatus.
StatusArgs     == CaseStatus \cup {"ARCHIVED"}
AnalystArgs    == {"AML_Analyst_1"}
NotesArgs      == {"Customer documentation requested"}
ResolutionArgs == {"False positive - customer cleared"}
Ticks          == 0..MaxTick

\* ----------------------------------------------------------------- helpers
\* self.sla_hours.get(priority, 168)
sla_hours(priority) ==
    CASE priority = "CRITICAL" -> 4
      [] priority = "HIGH"     -> 24
      [] priority = "MEDIUM"   -> 72
      [] priority = "LOW"      -> 168
      [] OTHER                 -> 168

\* _calculate_due_date: datetime.now() + timedelta(hours=hours), where now is
\* the clock as read inside this helper
calculate_due_date(priority, now) == now + sla_hours(priority) * SecondsPerHour

\* _determine_case_type with the FRAUD_INDICATOR entry missing from the mapping
determine_case_type_without_fraud(alert_type) ==
    CASE alert_type = "PEP_DETECTED"       -> "PEP_REVIEW"
      [] alert_type = "SANCTIONS_MATCH"    -> "SANCTIONS_CHECK"
      [] alert_type = "HIGH_RISK_CUSTOMER" -> "ENHANCED_DUE_DILIGENCE"
      [] OTHER                             -> "AML_INVESTIGATION"

\* _determine_case_type: mapping.get(alert_type, AML_INVESTIGATION)
determine_case_type(alert_type) ==
    CASE alert_type = "PEP_DETECTED"       -> "PEP_REVIEW"
      [] alert_type = "SANCTIONS_MATCH"    -> "SANCTIONS_CHECK"
      [] alert_type = "FRAUD_INDICATOR"    -> "FRAUD_INVESTIGATION"
      [] alert_type = "HIGH_RISK_CUSTOMER" -> "ENHANCED_DUE_DILIGENCE"
      [] alert_type = "LARGE_TRANSACTION"  -> "AML_INVESTIGATION"
      [] alert_type = "SUSPICIOUS_PATTERN" -> "AML_INVESTIGATION"
      [] OTHER                             -> "AML_INVESTIGATION"

\* _auto_assign_case with the HIGH branch folded into the CRITICAL one
auto_assign_case_high_to_senior(priority) ==
    IF priority \in {"CRITICAL", "HIGH"} THEN "Senior_AML_Analyst"
    ELSE "Junior_AML_Analyst"

\* _auto_assign_case
auto_assign_case(priority) ==
    IF priority = "CRITICAL" THEN "Senior_AML_Analyst"
    ELSE IF priority = "HIGH" THEN "AML_Analyst_Team"
    ELSE "Junior_AML_Analyst"

\* str(uuid.uuid4()): a value no earlier call returned
uuid4(cs, log) == Len(cs) + Len(log) + 1

\* mask = self.cases['case_id'] == case_id; len(self.cases) > 0 and mask.any()
Known(cs, case_id) == Len(cs) > 0 /\ \E i \in 1..Len(cs) : cs[i].case_id = case_id

\* self.cases.loc[mask, column].iloc[0] for the row of a known case_id
RowOf(cs, case_id) == CHOOSE i \in 1..Len(cs) : cs[i].case_id = case_id

\* _log_case_action with the operands of pd.concat swapped: the new row is put
\* in front of the log
log_case_action_prepending(log, action_id, case_id, action_type, description, analyst_name, now) ==
    <<[action_id    |-> action_id,
       case_id      |-> case_id,
       action_type  |-> action_type,
       description  |-> description,
       analyst_name |-> analyst_name,
       timestamp    |-> now]>> \o log

\* _log_case_action: one row appended to the action log
log_case_action(log, action_id, case_id, action_type, description, analyst_name, now) ==
    Append(log, [action_id    |-> action_id,
                 case_id      |-> case_id,
                 action_type  |-> action_type,
                 description  |-> description,
                 analyst_name |-> analyst_name,
                 timestamp    |-> now])

\* the case row create_case_from_alert builds (lines 41-53): created_at is the
\* clock read at line 48, due_date comes from a second read inside
\* _calculate_due_date (line 89)
NewCase(alert, case_id, now_created, now_due) ==
    [case_id      |-> case_id,
     customer_id  |-> alert.customer_id,
     alert_id     |-> alert.alert_id,
     case_type    |-> determine_case_type(alert.alert_type),
     priority     |-> alert.priority,
     status       |-> "OPEN",
     created_at   |-> now_created,
     assigned_to  |-> auto_assign_case(alert.priority),
     due_date     |-> calculate_due_date(alert.priority, now_due),
     description  |-> <<"Investigation case for", alert.alert_type, alert.details>>,
     risk_level   |-> alert.risk_level,
     last_updated |-> NaT,
     closed_at    |-> NaT,
     resolution   |-> NoValue]

\* the status update with the SLA clock restarted at every status change
SetStatusRestartingSla(cs, case_id, new_status, now) ==
    [i \in 1..Len(cs) |->
        IF cs[i].case_id = case_id
        THEN [cs[i] EXCEPT !.status = new_status, !.last_updated = now,
                           !.due_date = calculate_due_date(cs[i].priority, now)]
        ELSE cs[i]]

\* self.cases.loc[mask, 'status'] = new_status;
\* self.cases.loc[mask, 'last_updated'] = datetime.now()
SetStatus(cs, case_id, new_status, now) ==
    [i \in 1..Len(cs) |->
        IF cs[i].case_id = case_id
        THEN [cs[i] EXCEPT !.status = new_status, !.last_updated = now]
        ELSE cs[i]]

\* self.cases.loc[mask, 'assigned_to'] = analyst_name;
\* self.cases.loc[mask, 'last_updated'] = datetime.now()
SetAssignee(cs, case_id, analyst_name, now) ==
    [i \in 1..Len(cs) |->
        IF cs[i].case_id = case_id
        THEN [cs[i] EXCEPT !.assigned_to = analyst_name, !.last_updated = now]
        ELSE cs[i]]

\* self.cases.loc[mask, 'closed_at'] = datetime.now();
\* self.cases.loc[mask, 'resolution'] = resolution
SetClosure(cs, case_id, resolution, now) ==
    [i \in 1..Len(cs) |->
        IF cs[i].case_id = case_id
        THEN [cs[i] EXCEPT !.closed_at = now, !.resolution = resolution]
        ELSE cs[i]]

\* update_case_status without its _log_case_action call
UpdateCaseStatusUnlogged(cs, log, case_id, new_status, notes, now_updated, now_logged) ==
    IF Known(cs, case_id)
    THEN [cases        |-> SetStatus(cs, case_id, new_status, now_updated),
          case_actions |-> log]
    ELSE [cases |-> cs, case_actions |-> log]

\* The body of update_case_status on table cs and log: the table and the log
\* after it.  now_updated is the clock read at line 98, now_logged the read in
\* _log_case_action.  An empty table or an unknown case_id falls through both
\* ifs: nothing is changed and nothing is raised.
UpdateCaseStatus(cs, log, case_id, new_status, notes, now_updated, now_logged) ==
    IF Known(cs, case_id)
    THEN LET old_status == cs[RowOf(cs, case_id)].status
         IN  [cases        |-> SetStatus(cs, case_id, new_status, now_updated),
              case_actions |-> log_case_action(log, uuid4(cs, log), case_id,
                                  "STATUS_CHANGED",
                                  <<"Status changed", old_status, new_status, notes>>,
                                  "SYSTEM", now_logged)]
    ELSE [cases |-> cs, case_actions |-> log]

\* what a call leaves behind for its caller: no handler of the case manager has
\* a raise statement, so every call returns
Returned(op, value) == [op |-> op, raised |-> "none", value |-> value]


\* ------------------------------------------------------------ alert engine
\* (src/src/monitoring/alert_engine.py, class AMLAlertEngine)
AlertType == {"HIGH_RISK_CUSTOMER", "PEP_DETECTED", "SANCTIONS_MATCH",
              "LARGE_TRANSACTION", "SUSPICIOUS_PATTERN", "FRAUD_INDICATOR"}

AlertPriority == {"CRITICAL", "HIGH", "MEDIUM", "LOW"}

\* self.alert_thresholds
alert_thresholds ==
    [critical_risk_score   |-> 85,
     high_risk_score       |-> 60,
     large_transaction     |-> 100000,
     fraud_count_threshold |-> 1,
     pep_alert             |-> TRUE,
     sanctions_alert       |-> TRUE]

\* self.alert_rules[alert_type]
alert_rules(alert_type) ==
    CASE alert_type = "HIGH_RISK_CUSTOMER" ->
            [priority |-> "HIGH",
             description |-> "Customer risk score exceeds threshold"]
      [] alert_type = "PEP_DETECTED" ->
            [priority |-> "CRITICAL",
             description |-> "Politically Exposed Person identified"]
      [] alert_type = "SANCTIONS_MATCH" ->
            [priority |-> "CRITICAL",
             description |-> "Customer from sanctioned jurisdiction"]
      [] alert_type = "LARGE_TRANSACTION" ->
            [priority |-> "MEDIUM",
             description |-> "Large transaction amount detected"]
      [] alert_type = "SUSPICIOUS_PATTERN" ->
            [priority |-> "HIGH",
             description |-> "Suspicious transaction pattern identified"]
      [] alert_type = "FRAUD_INDICATOR" ->
            [priority |-> "CRITICAL",
             description |-> "Historical fraud activity detected"]

\* _determine_risk_level with FRAUD_INDICATOR missing from critical_alerts
determine_risk_level_without_fraud(alert_type) ==
    IF alert_type \in {"PEP_DETECTED", "SANCTIONS_MATCH"}
    THEN "CRITICAL"
    ELSE IF alert_type \in {"HIGH_RISK_CUSTOMER", "SUSPICIOUS_PATTERN"}
    THEN "HIGH"
    ELSE "MEDIUM"

\* _determine_risk_level
determine_risk_level(alert_type) ==
    IF alert_type \in {"PEP_DETECTED", "SANCTIONS_MATCH", "FRAUD_INDICATOR"}
    THEN "CRITICAL"
    ELSE IF alert_type \in {"HIGH_RISK_CUSTOMER", "SUSPICIOUS_PATTERN"}
    THEN "HIGH"
    ELSE "MEDIUM"

\* _create_alert: the alert record (alert_id is the uuid drawn at line 140)
create_alert(alert_id, customer_id, alert_type, details) ==
    [alert_id    |-> alert_id,
     customer_id |-> customer_id,
     alert_type  |-> alert_type,
     priority    |-> alert_rules(alert_type).priority,
     description |-> alert_rules(alert_type).description,
     details     |-> details,
     risk_level  |-> determine_risk_level(alert_type)]

\* A customer record (one row of the profiles frame).  present is the set of
\* its keys; the value of a key that is not present is never read.
ProfileFields == {"customer_id", "enhanced_risk_score", "is_pep", "pep_category",
                  "occupation", "sanctions_risk", "nationality", "fraud_count",
                  "total_amount"}

NoProfile ==
    [present |-> {}, customer_id |-> "C1", enhanced_risk_score |-> 0,
     is_pep |-> FALSE, pep_category |-> "Government Official",
     occupation |-> "Minister", sanctions_risk |-> FALSE, nationality |-> "IR",
     fraud_count |-> 0, total_amount |-> 0]

\* the records the engine is exercised with: every subset of the keys, and for
\* the keys that are present values on both sides of each threshold
Profiles ==
    {p \in [present : SUBSET ProfileFields,
            customer_id : {"C1"},
            enhanced_risk_score : {0, 59, 60, 84, 85, 90},
            is_pep : BOOLEAN,
            pep_category : {"Government Official"},
            occupation : {"Minister"},
            sanctions_risk : BOOLEAN,
            nationality : {"IR"},
            fraud_count : {0, 1, 2},
            total_amount : {0, 99999, 100000}] :
        \A f \in ProfileFields \ p.present : p[f] = NoProfile[f]}

\* 'key' in customer
Has(p, key) == key \in p.present

\* how a call of the engine ends: the exception raised ("none": it returned)
\* and the value returned
EngineReturned(op, value) == [op |-> op, raised |-> "none", value |-> value]
EngineRaised(op, exception) == [op |-> op, raised |-> exception, value |-> <<>>]
Pending == [op |-> "pending", raised |-> "none", value |-> <<>>]

\* alerts.append(self._create_alert(customer['customer_id'], alert_type,
\* details)) on the list built so far.  acc is [raised, value]: the exception
\* raised so far ("none": none) and the local list alerts; reads names the keys
\* the f-string of details subscripts.  Subscripting a key the record does not
\* have raises KeyError, and the rules after it are not run.
AppendAlert(acc, p, first_uuid, alert_type, reads, details) ==
    IF ~(({"customer_id"} \cup reads) \subseteq p.present)
    THEN [acc EXCEPT !.raised = "KeyError"]
    ELSE [acc EXCEPT !.value =
              Append(@, create_alert(first_uuid + Len(acc.value), p.customer_id,
                                     alert_type, details))]

\* the risk-score rule with > in place of >= at the high threshold
RiskScoreRuleStrict(acc, p, first_uuid) ==
    IF acc.raised # "none" THEN acc
    ELSE IF ~Has(p, "enhanced_risk_score")
    THEN [acc EXCEPT !.raised = "KeyError"]
    ELSE IF p.enhanced_risk_score >= alert_thresholds.critical_risk_score
    THEN AppendAlert(acc, p, first_uuid, "HIGH_RISK_CUSTOMER", {},
                     <<"Critical risk score:", p.enhanced_risk_score>>)
    ELSE IF p.enhanced_risk_score > alert_thresholds.high_risk_score
    THEN AppendAlert(acc, p, first_uuid, "HIGH_RISK_CUSTOMER", {},
                     <<"High risk score:", p.enhanced_risk_score>>)
    ELSE acc

\* lines 87-99: the risk-score rule
RiskScoreRule(acc, p, first_uuid) ==
    IF acc.raised # "none" THEN acc
    ELSE IF ~Has(p, "enhanced_risk_score")
    THEN [acc EXCEPT !.raised = "KeyError"]
    ELSE IF p.enhanced_risk_score >= alert_thresholds.critical_risk_score
    THEN AppendAlert(acc, p, first_uuid, "HIGH_RISK_CUSTOMER", {},
                     <<"Critical risk score:", p.enhanced_risk_score>>)
    ELSE IF p.enhanced_risk_score >= alert_thresholds.high_risk_score
    THEN AppendAlert(acc, p, first_uuid, "HIGH_RISK_CUSTOMER", {},
                     <<"High risk score:", p.enhanced_risk_score>>)
    ELSE acc

\* lines 101-107: the PEP rule
PepRule(acc, p, first_uuid) ==
    IF acc.raised # "none" THEN acc
    ELSE IF ~Has(p, "is_pep")
    THEN [acc EXCEPT !.raised = "KeyError"]
    ELSE IF p.is_pep /\ alert_thresholds.pep_alert
    THEN AppendAlert(acc, p, first_uuid, "PEP_DETECTED",
                     {"pep_category", "occupation"},
                     <<"PEP Category:", p.pep_category, "Occupation:", p.occupation>>)
    ELSE acc

\* lines 109-115: the sanctions rule
SanctionsRule(acc, p, first_uuid) ==
    IF acc.raised # "none" THEN acc
    ELSE IF ~Has(p, "sanctions_risk")
    THEN [acc EXCEPT !.raised = "KeyError"]
    ELSE IF p.sanctions_risk /\ alert_thresholds.sanctions_alert
    THEN AppendAlert(acc, p, first_uuid, "SANCTIONS_MATCH", {"nationality"},
                     <<"Sanctioned jurisdiction:", p.nationality>>)
    ELSE acc

\* lines 117-123: the fraud-history rule
FraudRule(acc, p, first_uuid) ==
    IF acc.raised # "none" THEN acc
    ELSE IF Has(p, "fraud_count")
            /\ p.fraud_count >= alert_thresholds.fraud_count_threshold
    THEN AppendAlert(acc, p, first_uuid, "FRAUD_INDICATOR", {},
                     <<"Fraud history:", p.fraud_count, "incidents">>)
    ELSE acc

\* lines 125-131: the large-transaction rule
LargeTransactionRule(acc, p, first_uuid) ==
    IF acc.raised # "none" THEN acc
    ELSE IF Has(p, "total_amount")
            /\ p.total_amount >= alert_thresholds.large_transaction
    THEN AppendAlert(acc, p, first_uuid, "LARGE_TRANSACTION", {},
                     <<"Large transaction volume:", p.total_amount>>)
    ELSE acc

\* _evaluate_customer_alerts: the five rules in source order on alerts = [];
\* first_uuid is the first uuid this call draws.  The result is the exception
\* raised and the local list alerts as it was when the method ended.
evaluate_customer_alerts(p, first_uuid) ==
    LargeTransactionRule(
      FraudRule(
        SanctionsRule(
          PepRule(
            RiskScoreRule([raised |-> "none", value |-> <<>>], p, first_uuid),
            p, first_uuid),
          p, first_uuid),
        p, first_uuid),
      p, first_uuid)

\* ------------------------------------------------- floating-point numbers
\* Python floats and numpy float64 are IEEE 754 binary64 numbers; every
\* operation returns the exact result rounded to the nearest number with a
\* 53-bit significand, ties to the even significand.  The numbers of the risk
\* engine are non-negative and far from overflow and underflow, so a number is
\* modelled as zero or [m, e] standing for m * 2^e with 2^52 <= m < 2^53.
\* A significand does not fit TLC's integers: natural numbers of any size are
\* sequences of digits in base 2^15, least significant digit first, without
\* leading zero digits (the empty sequence is 0).
Base == 32768
DigitBits == 15
Precision == 53

RECURSIVE Pow2(_)
Pow2(k) == IF k = 0 THEN 1 ELSE 2 * Pow2(k - 1)

RECURSIVE IntBitLen(_)
IntBitLen(n) == IF n = 0 THEN 0 ELSE 1 + IntBitLen(n \div 2)

RECURSIVE BigOfInt(_)
BigOfInt(n) == IF n = 0 THEN <<>> ELSE <<n % Base>> \o BigOfInt(n \div Base)

RECURSIVE BigToInt(_)
BigToInt(a) == IF a = <<>> THEN 0 ELSE Head(a) + Base * BigToInt(Tail(a))

RECURSIVE BigTrim(_)
BigTrim(a) ==
    IF a = <<>> THEN a
    ELSE IF a[Len(a)] = 0 THEN BigTrim(SubSeq(a, 1, Len(a) - 1))
    ELSE a

RECURSIVE BigAddC(_, _, _)
BigAddC(a, b, carry) ==
    IF a = <<>> /\ b = <<>> THEN BigOfInt(carry)
    ELSE LET x == IF a = <<>> THEN 0 ELSE Head(a)
             y == IF b = <<>> THEN 0 ELSE Head(b)
             s == x + y + carry
         IN  <<s % Base>> \o BigAddC(IF a = <<>> THEN a ELSE Tail(a),
                                     IF b = <<>> THEN b ELSE Tail(b),
                                     s \div Base)

BigAdd(a, b) == BigAddC(a, b, 0)

RECURSIVE BigMulSmallC(_, _, _)
BigMulSmallC(a, k, carry) ==
    IF a = <<>> THEN BigOfInt(carry)
    ELSE LET s == Head(a) * k + carry
         IN  <<s % Base>> \o BigMulSmallC(Tail(a), k, s \div Base)

\* a * k for a digit k
BigMulSmall(a, k) == BigTrim(BigMulSmallC(a, k, 0))

RECURSIVE BigMul(_, _)
BigMul(a, b) ==
    IF a = <<>> \/ b = <<>> THEN <<>>
    ELSE BigTrim(BigAdd(BigMulSmallC(a, Head(b), 0), <<0>> \o BigMul(a, Tail(b))))

\* quotient and remainder of a by a digit d > 0
RECURSIVE BigDivSmallR(_, _)
BigDivSmallR(a, d) ==
    IF a = <<>> THEN [q |-> <<>>, r |-> 0]
    ELSE LET hi  == BigDivSmallR(Tail(a), d)
             cur == hi.r * Base + Head(a)
         IN  [q |-> <<cur \div d>> \o hi.q, r |-> cur % d]

BigDivSmall(a, d) ==
    LET qr == BigDivSmallR(a, d) IN [q |-> BigTrim(qr.q), r |-> qr.r]

BigBitLen(a) ==
    IF a = <<>> THEN 0
    ELSE DigitBits * (Len(a) - 1) + IntBitLen(a[Len(a)])

BigIsOdd(a) == a # <<>> /\ a[1] % 2 = 1

\* a * 2^k
BigShl(a, k) ==
    IF a = <<>> THEN a
    ELSE [i \in 1..(k \div DigitBits) |-> 0]
             \o BigMulSmall(a, Pow2(k % DigitBits))

\* floor(a / 2^k), and whether a bit that was shifted out was set
BigShr(a, k) ==
    LET digits == k \div DigitBits
        gone   == SubSeq(a, 1, IF digits < Len(a) THEN digits ELSE Len(a))
        qr     == BigDivSmall(SubSeq(a, digits + 1, Len(a)), Pow2(k % DigitBits))
    IN  [q |-> qr.q,
         sticky |-> qr.r # 0 \/ \E i \in 1..Len(gone) : gone[i] # 0]

\* -1, 0, 1 as a < b, a = b, a > b
RECURSIVE BigCmp(_, _)
BigCmp(a, b) ==
    IF Len(a) # Len(b) THEN (IF Len(a) < Len(b) THEN -1 ELSE 1)
    ELSE IF a = <<>> THEN 0
    ELSE IF a[Len(a)] # b[Len(b)]
    THEN (IF a[Len(a)] < b[Len(b)] THEN -1 ELSE 1)
    ELSE BigCmp(BigTrim(SubSeq(a, 1, Len(a) - 1)), BigTrim(SubSeq(b, 1, Len(b) - 1)))

FloatZero == [m |-> <<>>, e |-> 0]

\* the float nearest to (m + f) * 2^e, where 0 <= f < 1 and sticky says f > 0
\* (a caller with sticky passes an m of more than Precision + 1 bits)
RoundNearestEven(m, e, sticky) ==
    IF m = <<>> THEN FloatZero
    ELSE LET len == BigBitLen(m)
         IN  IF len <= Precision
             THEN [m |-> BigShl(m, Precision - len), e |-> e - (Precision - len)]
             ELSE LET s     == len - Precision
                      cut   == BigShr(m, s - 1)
                      guard == BigIsOdd(cut.q)
                      q     == BigShr(cut.q, 1).q
                      up    == guard /\ (cut.sticky \/ sticky \/ BigIsOdd(q))
                      r     == IF up THEN BigAdd(q, <<1>>) ELSE q
                  IN  IF BigBitLen(r) > Precision
                      THEN [m |-> BigShr(r, 1).q, e |-> e + s + 1]
                      ELSE [m |-> r, e |-> e + s]

\* float(n) for an integer n >= 0
FloatOfInt(n) == RoundNearestEven(BigOfInt(n), 0, FALSE)

\* n / d for integers n >= 0 and 0 < d < Base (true division), which is also
\* the value of the decimal literal n/d
FloatDivInt(n, d) ==
    LET qr == BigDivSmall(BigShl(BigOfInt(n), 5 * DigitBits), d)
    IN  RoundNearestEven(qr.q, -(5 * DigitBits), qr.r # 0)

\* x * y
FloatMul(x, y) == RoundNearestEven(BigMul(x.m, y.m), x.e + y.e, FALSE)

\* the significands of x and y over their smaller exponent
Aligned(x, y) ==
    LET e == IF x.m = <<>> THEN y.e
             ELSE IF y.m = <<>> THEN x.e
             ELSE IF x.e < y.e THEN x.e ELSE y.e
    IN  [e |-> e,
         x |-> IF x.m = <<>> THEN <<>> ELSE BigShl(x.m, x.e - e),
         y |-> IF y.m = <<>> THEN <<>> ELSE BigShl(y.m, y.e - e)]

\* x + y
FloatAdd(x, y) ==
    LET al == Aligned(x, y) IN RoundNearestEven(BigAdd(al.x, al.y), al.e, FALSE)

\* x >= y
FloatGE(x, y) == LET al == Aligned(x, y) IN BigCmp(al.x, al.y) >= 0

\* min(x, y)
FloatMin(x, y) == IF FloatGE(y, x) THEN x ELSE y

\* round(x, 2): the decimal with two places nearest to the exact value of x,
\* ties to the even last place, as a count of hundredths (the float returned
\* is the one nearest to that decimal)
Round2(x) ==
    IF x.m = <<>> THEN 0
    ELSE LET h == BigMulSmall(x.m, 100)
         IN  IF x.e >= 0 THEN BigToInt(BigShl(h, x.e))
             ELSE LET cut   == BigShr(h, -x.e - 1)
                      guard == BigIsOdd(cut.q)
                      q     == BigShr(cut.q, 1).q
                      up    == guard /\ (cut.sticky \/ BigIsOdd(q))
                  IN  BigToInt(q) + (IF up THEN 1 ELSE 0)

\* ----------------------------------------------------- risk scoring engine
\* RiskScoringEngine.__init__: self.weights, self.thresholds and
\* self.tx_type_scores; a decimal literal n/d is the float nearest to it
RiskScoringEngine ==
    [weights |-> [transaction_type |-> FloatDivInt(25, 100),
                  amount_risk      |-> FloatDivInt(30, 100),
                  fraud_history    |-> FloatDivInt(35, 100),
                  cash_pattern     |-> FloatDivInt(10, 100)],
     thresholds |-> [high_amount   |-> FloatDivInt(57838188, 100),
                     medium_amount |-> 100000,
                     low_risk      |-> 30,
                     medium_risk   |-> 60,
                     high_risk     |-> 85],
     tx_type_scores |-> [TRANSFER |-> 85, CASH_OUT |-> 60, PAYMENT |-> 10,
                         CASH_IN |-> 10, DEBIT |-> 10]]

\* the transaction types of the data, in the column order used to lay out a
\* transaction set
TxTypes == <<"TRANSFER", "CASH_OUT", "PAYMENT", "CASH_IN", "DEBIT">>

\* the columns of a transaction frame
TxColumns == {"type", "amount", "isFraud"}

\* customer_data[column].sum() of a 0/1 or whole-number column
RECURSIVE ColumnSum(_, _)
ColumnSum(rows, column) ==
    IF rows = <<>> THEN 0 ELSE Head(rows)[column] + ColumnSum(Tail(rows), column)

\* customer_data['amount'].max()
ColumnMax(rows, column) ==
    CHOOSE v \in {rows[i][column] : i \in 1..Len(rows)} :
        \A i \in 1..Len(rows) : rows[i][column] <= v

\* customer_data['type'].value_counts(): the types present with their number
\* of rows, most frequent first; types with equal counts stay in the order of
\* their first row
type_counts(rows) ==
    LET present  == {rows[i].type : i \in 1..Len(rows)}
        Count(t) == Cardinality({i \in 1..Len(rows) : rows[i].type = t})
        First(t) == CHOOSE i \in 1..Len(rows) :
                        rows[i].type = t /\ \A j \in 1..(i - 1) : rows[j].type # t
        Before(u, t) == \/ Count(u) > Count(t)
                        \/ Count(u) = Count(t) /\ First(u) < First(t)
        At(k) == CHOOSE t \in present :
                     Cardinality({u \in present : Before(u, t)}) = k - 1
    IN  [k \in 1..Cardinality(present) |-> [value |-> At(k), count |-> Count(At(k))]]

\* self.tx_type_scores.get(tx_type, 10)
tx_type_score(engine, tx_type) ==
    IF tx_type \in DOMAIN engine.tx_type_scores
    THEN engine.tx_type_scores[tx_type]
    ELSE 10

\* lines 49-53: the loop over type_counts.items(), weighted_score so far
RECURSIVE WeightedScore(_, _, _, _)
WeightedScore(engine, counts, total_tx, weighted_score) ==
    IF counts = <<>> THEN weighted_score
    ELSE LET proportion == FloatDivInt(Head(counts).count, total_tx)
             type_score == tx_type_score(engine, Head(counts).value)
         IN  WeightedScore(engine, Tail(counts), total_tx,
                 FloatAdd(weighted_score,
                          FloatMul(proportion, FloatOfInt(type_score))))

calculate_transaction_type_score(engine, data) ==
    IF "type" \notin data.columns THEN FloatZero
    ELSE FloatMin(WeightedScore(engine, type_counts(data.rows), Len(data.rows),
                                FloatZero),
                  FloatOfInt(100))

calculate_amount_risk_score(engine, data) ==
    IF "amount" \notin data.columns \/ Len(data.rows) = 0 THEN 0
    ELSE LET max_amount == ColumnMax(data.rows, "amount")
             avg_amount == FloatDivInt(ColumnSum(data.rows, "amount"),
                                       Len(data.rows))
         IN  IF FloatGE(FloatOfInt(max_amount), engine.thresholds.high_amount)
             THEN 90
             ELSE IF max_amount >= engine.thresholds.medium_amount THEN 60
             ELSE IF FloatGE(avg_amount, FloatOfInt(50000)) THEN 30
             ELSE 10

\* calculate_fraud_history_score with > in place of >= at the rate 0.1
calculate_fraud_history_score_strict(data) ==
    IF "isFraud" \notin data.columns \/ Len(data.rows) = 0 THEN 0
    ELSE LET fraud_count == ColumnSum(data.rows, "isFraud")
             fraud_rate  == FloatDivInt(fraud_count, Len(data.rows))
         IN  IF FloatGE(fraud_rate, FloatDivInt(5, 10)) THEN 100
             ELSE IF FloatGE(fraud_rate, FloatDivInt(1, 10))
                     /\ fraud_rate # FloatDivInt(1, 10) THEN 80
             ELSE IF fraud_count > 0 THEN 60
             ELSE 0

calculate_fraud_history_score(data) ==
    IF "isFraud" \notin data.columns \/ Len(data.rows) = 0 THEN 0
    ELSE LET fraud_count == ColumnSum(data.rows, "isFraud")
             fraud_rate  == FloatDivInt(fraud_count, Len(data.rows))
         IN  IF FloatGE(fraud_rate, FloatDivInt(5, 10)) THEN 100
             ELSE IF FloatGE(fraud_rate, FloatDivInt(1, 10)) THEN 80
             ELSE IF fraud_count > 0 THEN 60
             ELSE 0

\* calculate_cash_pattern_score with > in place of >= at the rate 0.8
calculate_cash_pattern_score_strict(data) ==
    IF "type" \notin data.columns \/ Len(data.rows) = 0 THEN 0
    ELSE LET cash_out_count ==
                 Cardinality({i \in 1..Len(data.rows) :
                                  data.rows[i].type = "CASH_OUT"})
             cash_out_rate == FloatDivInt(cash_out_count, Len(data.rows))
         IN  IF FloatGE(cash_out_rate, FloatDivInt(8, 10))
                /\ cash_out_rate # FloatDivInt(8, 10) THEN 80
             ELSE IF FloatGE(cash_out_rate, FloatDivInt(5, 10)) THEN 60
             ELSE IF FloatGE(cash_out_rate, FloatDivInt(2, 10)) THEN 30
             ELSE 10

calculate_cash_pattern_score(data) ==
    IF "type" \notin data.columns \/ Len(data.rows) = 0 THEN 0
    ELSE LET cash_out_count ==
                 Cardinality({i \in 1..Len(data.rows) :
                                  data.rows[i].type = "CASH_OUT"})
             cash_out_rate == FloatDivInt(cash_out_count, Len(data.rows))
         IN  IF FloatGE(cash_out_rate, FloatDivInt(8, 10)) THEN 80
             ELSE IF FloatGE(cash_out_rate, FloatDivInt(5, 10)) THEN 60
             ELSE IF FloatGE(cash_out_rate, FloatDivInt(2, 10)) THEN 30
             ELSE 10

get_risk_category(engine, score) ==
    IF FloatGE(score, FloatOfInt(engine.thresholds.high_risk)) THEN "CRITICAL"
    ELSE IF FloatGE(score, FloatOfInt(engine.thresholds.medium_risk)) THEN "HIGH"
    ELSE IF FloatGE(score, FloatOfInt(engine.thresholds.low_risk)) THEN "MEDIUM"
    ELSE "LOW"

\* lines 123-128: the weighted total of the four component scores
total_score(engine, tx_type_score_, amount_score, fraud_score, cash_score) ==
    FloatAdd(
      FloatAdd(
        FloatAdd(FloatMul(tx_type_score_, engine.weights.transaction_type),
                 FloatMul(FloatOfInt(amount_score), engine.weights.amount_risk)),
        FloatMul(FloatOfInt(fraud_score), engine.weights.fraud_history)),
      FloatMul(FloatOfInt(cash_score), engine.weights.cash_pattern))

\* lines 130-140: the dict calculate_customer_risk_score returns.  A number
\* that went through round(x, 2) is held as its count of hundredths:
\* total_score 5950 is 59.5, a component 6000 is 60.
risk_result(engine, tx, amount, fraud, cash, total) ==
    [total_score   |-> Round2(total),
     risk_category |-> get_risk_category(engine, total),
     components    |-> [transaction_type |-> Round2(tx),
                        amount_risk      |-> Round2(FloatOfInt(amount)),
                        fraud_history    |-> Round2(FloatOfInt(fraud)),
                        cash_pattern     |-> Round2(FloatOfInt(cash))]]

\* lines 123-140: the total of the four component scores and the result
weighted_result(engine, tx, amount, fraud, cash) ==
    risk_result(engine, tx, amount, fraud, cash,
                total_score(engine, tx, amount, fraud, cash))

calculate_customer_risk_score(engine, data) ==
    weighted_result(engine,
                    calculate_transaction_type_score(engine, data),
                    calculate_amount_risk_score(engine, data),
                    calculate_fraud_history_score(data),
                    calculate_cash_pattern_score(data))

\* the transaction sets the engine is exercised with: per type a number of
\* rows, laid out type after type in the order of TxTypes; the first rows are
\* the fraudulent ones; the first row has its own amount
TxCounts ==
    [TRANSFER |-> {0, 1, 5, 32}, CASH_OUT |-> {0, 1, 8}, PAYMENT |-> {0, 1, 2},
     CASH_IN |-> {0, 5}, DEBIT |-> {0, 13}]

\* amount of the first row, amount of every other row
TxAmounts == {<<1000, 1000>>, <<60000, 60000>>, <<150000, 1000>>,
              <<600000, 60000>>}

\* number of rows with isFraud = 1
TxFrauds == {0, 1, 5}

RECURSIVE TypeColumn(_, _)
TypeColumn(counts, k) ==
    IF k > Len(TxTypes) THEN <<>>
    ELSE [i \in 1..counts[TxTypes[k]] |-> TxTypes[k]] \o TypeColumn(counts, k + 1)

TransactionSet(counts, amounts, frauds, columns) ==
    LET types == TypeColumn(counts, 1)
    IN  [columns |-> columns,
         rows |-> [k \in 1..Len(types) |->
                      [type    |-> types[k],
                       amount  |-> IF k = 1 THEN amounts[1] ELSE amounts[2],
                       isFraud |-> IF k <= frauds THEN 1 ELSE 0]]]

TxTotal(counts) ==
    counts.TRANSFER + counts.CASH_OUT + counts.PAYMENT + counts.CASH_IN
        + counts.DEBIT

TxShapes ==
    {s \in [counts : [TRANSFER : TxCounts.TRANSFER, CASH_OUT : TxCounts.CASH_OUT,
                      PAYMENT : TxCounts.PAYMENT, CASH_IN : TxCounts.CASH_IN,
                      DEBIT : TxCounts.DEBIT],
            amounts : TxAmounts,
            frauds : TxFrauds,
            columns : {TxColumns, TxColumns \ {"isFraud"}}] :
        /\ TxTotal(s.counts) <= MaxTx
        /\ s.frauds <= TxTotal(s.counts)
        /\ "isFraud" \notin s.columns => s.frauds = 0}

TransactionSets ==
    {TransactionSet(s.counts, s.amounts, s.frauds, s.columns) : s \in TxShapes}

\* the rows of a frame in the opposite order
Reversed(rows) == [k \in 1..Len(rows) |-> rows[Len(rows) + 1 - k]]

\* ------------------------------------------------------------------ threads
\* threads that call methods of one shared AMLCaseManager
Threads == 1..MaxThreads

\* A thread's position and locals.  pc is where it stands: "idle" (outside
\* any call), "create_store" (pd.concat of line 57 evaluated, self.cases not
\* yet assigned), "log_read" (about to enter _log_case_action), "log_store"
\* (pd.concat of line 137 evaluated, self.case_actions not yet assigned),
\* "set_closure" (close_case before line 184).  seen is the frame pd.concat
\* read, row the row it adds; then is where the call goes on after
\* _log_case_action; owed is the number of log rows the call has still to
\* add; resolution and closer are close_case's arguments; returned holds the
\* case_ids create_case_from_alert has returned to this thread.
NoRow == [case_id |-> UnknownCaseId]

Idle ==
    [pc |-> "idle", op |-> "none", case_id |-> UnknownCaseId,
     action_type |-> "none", description |-> <<>>, analyst_name |-> "SYSTEM",
     resolution |-> NoValue, closer |-> "SYSTEM", then |-> "return", owed |-> 0,
     seen |-> <<>>, row |-> NoRow, returned |-> {}]

\* the locals of a thread that is about to call
\* _log_case_action(case_id, action_type, description, analyst_name) and will
\* go on at then afterwards
EnterLog(th, op, case_id, action_type, description, analyst_name, then, owed) ==
    [th EXCEPT !.pc = "log_read", !.op = op, !.case_id = case_id,
               !.action_type = action_type, !.description = description,
               !.analyst_name = analyst_name, !.then = then, !.owed = owed]

\* the thread's call has returned
Leave(th) ==
    [Idle EXCEPT !.returned = th.returned]

\* ----------------------------------------------------------------- actions
\* AMLCaseManager() and AMLAlertEngine() just constructed; no thread has
\* started a call and no customer has been evaluated
Init ==
    /\ cases = <<>>
    /\ case_actions = <<>>
    /\ clock = 0
    /\ ret = Returned("__init__", None)
    /\ profile = NoProfile
    /\ alert_ret = Pending
    /\ alert_uuids = 0
    /\ threads = [t \in Threads |-> Idle]
    /\ uuids = 0
    /\ profiles = <<>>
    /\ new_alerts = <<>>
    /\ active_alerts = <<>>
    /\ alert_history = <<>>
    /\ risk_engine = RiskScoringEngine
    /\ customer_data = [columns |-> TxColumns, rows |-> <<>>]
    /\ score_ret = Pending

\* time passes between two calls
Tick ==
    /\ clock < MaxClock
    /\ clock' = clock + 1
    /\ UNCHANGED <<cases, case_actions, ret>>

create_case_from_alert(alert) ==
    \E d1, d2 \in Ticks :
        LET now_created == clock
            now_due     == now_created + d1
            now_logged  == now_due + d2
            case_id     == uuid4(cases, case_actions)
            new_cases   == Append(cases, NewCase(alert, case_id, now_created, now_due))
        IN  /\ Len(cases) < MaxCases
            /\ Len(case_actions) < MaxActions
            /\ now_logged <= MaxClock
            /\ cases' = new_cases
            /\ case_actions' = log_case_action(case_actions,
                                   uuid4(new_cases, case_actions), case_id,
                                   "CASE_CREATED",
                                   <<"Case automatically created from alert">>,
                                   "SYSTEM", now_logged)
            /\ clock' = now_logged
            /\ ret' = Returned("create_case_from_alert", case_id)

update_case_status(case_id, new_status, notes) ==
    \E d1 \in Ticks :
        LET now_updated == clock
            now_logged  == now_updated + d1
            r == UpdateCaseStatus(cases, case_actions, case_id, new_status, notes,
                                  now_updated, now_logged)
        IN  /\ Len(r.case_actions) <= MaxActions
            /\ now_logged <= MaxClock
            /\ cases' = r.cases
            /\ case_actions' = r.case_actions
            /\ clock' = IF Known(cases, case_id) THEN now_logged ELSE clock
            /\ ret' = Returned("update_case_status", None)

assign_case(case_id, analyst_name) ==
    \E d1 \in Ticks :
        LET now_updated == clock
            now_logged  == now_updated + d1
        IN  /\ now_logged <= MaxClock
            /\ IF Known(cases, case_id)
               THEN /\ Len(case_actions) < MaxActions
                    /\ cases' = SetAssignee(cases, case_id, analyst_name, now_updated)
                    /\ case_actions' = log_case_action(case_actions,
                                           uuid4(cases, case_actions), case_id,
                                           "CASE_ASSIGNED",
                                           <<"Case assigned to", analyst_name>>,
                                           "SYSTEM", now_logged)
                    /\ clock' = now_logged
               ELSE UNCHANGED <<cases, case_actions, clock>>
            /\ ret' = Returned("assign_case", None)

add_case_notes(case_id, notes, analyst_name) ==
    /\ Len(case_actions) < MaxActions
    /\ case_actions' = log_case_action(case_actions, uuid4(cases, case_actions),
                           case_id, "NOTES_ADDED", <<notes>>, analyst_name, clock)
    /\ UNCHANGED <<cases, clock>>
    /\ ret' = Returned("add_case_notes", None)

close_case(case_id, resolution, analyst_name) ==
    \E d1, d2, d3 \in Ticks :
        LET known       == Known(cases, case_id)
            now_updated == clock
            now_logged  == now_updated + d1
            \* update_case_status reads the clock only for a known case
            now_closing == IF known THEN now_logged + d2 ELSE clock
            now_closed  == now_closing + d3
            r == UpdateCaseStatus(cases, case_actions, case_id, "CLOSED", "",
                                  now_updated, now_logged)
            log2 == log_case_action(r.case_actions, uuid4(r.cases, r.case_actions),
                        case_id, "CASE_CLOSED",
                        <<"Case closed. Resolution:", resolution>>,
                        analyst_name, now_closing)
        IN  /\ Len(log2) <= MaxActions
            /\ now_closed <= MaxClock
            /\ case_actions' = log2
            /\ cases' = IF known
                        THEN SetClosure(r.cases, case_id, resolution, now_closed)
                        ELSE r.cases
            /\ clock' = IF known THEN now_closed ELSE now_closing
            /\ ret' = Returned("close_case", None)

\* get_overdue_cases without the status condition of its filter
OverdueCasesIncludingClosed(cs, now) ==
    LET keep(c) == c.due_date < now IN SelectSeq(cs, keep)

\* get_overdue_cases: the rows with due_date < now and status != 'CLOSED', in
\* table order (boolean indexing); an empty table gives an empty frame
OverdueCases(cs, now) ==
    LET keep(c) == c.due_date < now /\ c.status # "CLOSED" IN SelectSeq(cs, keep)

\* the filter of get_high_priority_cases, before the sort
HighPriorityOpen(cs) ==
    LET keep(c) == c.priority \in {"CRITICAL", "HIGH"} /\ c.status # "CLOSED"
    IN  SelectSeq(cs, keep)

\* sort_values('created_at', ascending=False): the default sort kind is not
\* stable, so rows with equal created_at may come out in either order
SortedDescending(rows) ==
    {[i \in 1..Len(rows) |-> rows[p[i]]] :
        p \in {q \in [1..Len(rows) -> 1..Len(rows)] :
                 /\ \A i, j \in 1..Len(rows) : i # j => q[i] # q[j]
                 /\ \A i, j \in 1..Len(rows) :
                       i < j => rows[q[i]].created_at >= rows[q[j]].created_at}}

\* Series.value_counts().to_dict(): each value present with its number of rows
ValueCounts(cs, column) ==
    [v \in {cs[i][column] : i \in 1..Len(cs)} |->
        Cardinality({i \in 1..Len(cs) : cs[i][column] = v})]

\* the dict get_case_summary returns
CaseSummary(cs, now) ==
    IF Len(cs) = 0
    THEN [total |-> 0]
    ELSE [total       |-> Len(cs),
          by_status   |-> ValueCounts(cs, "status"),
          by_priority |-> ValueCounts(cs, "priority"),
          by_type     |-> ValueCounts(cs, "case_type"),
          overdue     |-> Len(OverdueCases(cs, now))]

get_case_summary ==
    /\ ret' = Returned("get_case_summary", CaseSummary(cases, clock))
    /\ UNCHANGED <<cases, case_actions, clock>>

get_overdue_cases ==
    /\ ret' = Returned("get_overdue_cases", OverdueCases(cases, clock))
    /\ UNCHANGED <<cases, case_actions, clock>>

get_high_priority_cases ==
    /\ \E sorted \in SortedDescending(HighPriorityOpen(cases)) :
           ret' = Returned("get_high_priority_cases", sorted)
    /\ UNCHANGED <<cases, case_actions, clock>>

CaseIdArgs == {cases[i].case_id : i \in 1..Len(cases)} \cup {UnknownCaseId}

\* one caller using the case manager, one call at a time
Next ==
    \/ Tick /\ UNCHANGED <<engine_vars, thread_vars, monitor_vars, scoring_vars>>
    \/ /\ \E alert \in AlertPool : create_case_from_alert(alert)
       /\ UNCHANGED <<engine_vars, thread_vars, monitor_vars, scoring_vars>>
    \/ /\ \E id \in CaseIdArgs, s \in StatusArgs : update_case_status(id, s, "")
       /\ UNCHANGED <<engine_vars, thread_vars, monitor_vars, scoring_vars>>
    \/ /\ \E id \in CaseIdArgs, a \in AnalystArgs : assign_case(id, a)
       /\ UNCHANGED <<engine_vars, thread_vars, monitor_vars, scoring_vars>>
    \/ /\ \E id \in CaseIdArgs, n \in NotesArgs, a \in AnalystArgs :
              add_case_notes(id, n, a)
       /\ UNCHANGED <<engine_vars, thread_vars, monitor_vars, scoring_vars>>
    \/ /\ \E id \in CaseIdArgs, r \in ResolutionArgs, a \in AnalystArgs :
              close_case(id, r, a)
       /\ UNCHANGED <<engine_vars, thread_vars, monitor_vars, scoring_vars>>
    \/ get_case_summary /\ UNCHANGED <<engine_vars, thread_vars, monitor_vars, scoring_vars>>
    \/ get_overdue_cases /\ UNCHANGED <<engine_vars, thread_vars, monitor_vars, scoring_vars>>
    \/ get_high_priority_cases /\ UNCHANGED <<engine_vars, thread_vars, monitor_vars, scoring_vars>>

Spec == Init /\ [][Next]_vars

\* -------------------------------------------------- case intake: actions
\* Alerts of every alert type the engine knows and of one it does not know,
\* each with a priority that is assigned to a senior and one that is not.
IntakeAlerts ==
    {[alert_id |-> 1, customer_id |-> "C1", alert_type |-> t, priority |-> p,
      risk_level |-> "HIGH", details |-> "evidence"] :
        t \in {"HIGH_RISK_CUSTOMER", "PEP_DETECTED", "SANCTIONS_MATCH",
               "LARGE_TRANSACTION", "SUSPICIOUS_PATTERN", "FRAUD_INDICATOR",
               "MANUAL_REFERRAL"},
        p \in {"CRITICAL", "LOW"}}

\* cases are created from alerts of every type, and summarised
NextIntake ==
    \/ Tick /\ UNCHANGED <<engine_vars, thread_vars, monitor_vars, scoring_vars>>
    \/ /\ \E alert \in IntakeAlerts : create_case_from_alert(alert)
       /\ UNCHANGED <<engine_vars, thread_vars, monitor_vars, scoring_vars>>
    \/ get_case_summary /\ UNCHANGED <<engine_vars, thread_vars, monitor_vars, scoring_vars>>

SpecIntake == Init /\ [][NextIntake]_vars

\* ------------------------------------------------ SLA monitoring: actions
\* a long time passes between two calls: the clock reaches the due date of
\* some case, or the second after it
SlaElapses ==
    /\ \E i \in 1..Len(cases), d \in Ticks :
           /\ clock < cases[i].due_date + d
           /\ clock' = cases[i].due_date + d
    /\ UNCHANGED <<cases, case_actions, ret>>

\* cases are created and closed, time passes, and the queries are run
NextSla ==
    \/ Tick /\ UNCHANGED <<engine_vars, thread_vars, monitor_vars, scoring_vars>>
    \/ SlaElapses /\ UNCHANGED <<engine_vars, thread_vars, monitor_vars, scoring_vars>>
    \/ /\ \E alert \in AlertPool : create_case_from_alert(alert)
       /\ UNCHANGED <<engine_vars, thread_vars, monitor_vars, scoring_vars>>
    \/ /\ \E id \in CaseIdArgs, r \in ResolutionArgs, a \in AnalystArgs :
              close_case(id, r, a)
       /\ UNCHANGED <<engine_vars, thread_vars, monitor_vars, scoring_vars>>
    \/ get_case_summary /\ UNCHANGED <<engine_vars, thread_vars, monitor_vars, scoring_vars>>
    \/ get_overdue_cases /\ UNCHANGED <<engine_vars, thread_vars, monitor_vars, scoring_vars>>
    \/ get_high_priority_cases /\ UNCHANGED <<engine_vars, thread_vars, monitor_vars, scoring_vars>>

SpecSla == Init /\ [][NextSla]_vars

\* ------------------------------------------- concurrent callers: actions
\* Threads call the methods of one AMLCaseManager, which takes no lock.  A
\* thread switch can fall between any two statements, and inside
\* self.x = pd.concat([self.x, new]) between the evaluation of the right-hand
\* side (which reads self.x) and the assignment.  Each action below is one
\* such piece of one call; a case_id argument is an id some earlier
\* create_case_from_alert returned.
RECURSIVE OwedBy(_)
OwedBy(n) == IF n = 0 THEN 0 ELSE threads[n].owed + OwedBy(n - 1)

\* log rows the calls in progress have still to add
Owed == OwedBy(MaxThreads)

\* threads between the two halves of line 57
CreatesInFlight == Cardinality({t \in Threads : threads[t].pc = "create_store"})

HeldCaseIds == UNION {threads[t].returned : t \in Threads}

\* create_case_from_alert, lines 39-57 up to the evaluation of pd.concat: the
\* case dict is built and self.cases is read
BeginCreate(t, alert) ==
    /\ threads[t].pc = "idle"
    /\ Len(cases) + CreatesInFlight < MaxCases
    /\ Len(case_actions) + Owed < MaxActions
    /\ threads' = [threads EXCEPT ![t] =
           [@ EXCEPT !.pc = "create_store", !.op = "create_case_from_alert",
                     !.case_id = uuids + 1, !.owed = 1, !.seen = cases,
                     !.row = NewCase(alert, uuids + 1, clock, clock)]]
    /\ uuids' = uuids + 1
    /\ UNCHANGED <<cases, case_actions, clock, ret, engine_vars,
                 monitor_vars, scoring_vars>>

\* line 57, the assignment: self.cases becomes the frame that was read plus
\* the new row; line 60 is next
StoreCases(t) ==
    /\ threads[t].pc = "create_store"
    /\ cases' = Append(threads[t].seen, threads[t].row)
    /\ threads' = [threads EXCEPT ![t] =
           EnterLog(@, "create_case_from_alert", @.case_id, "CASE_CREATED",
                    <<"Case automatically created from alert">>, "SYSTEM",
                    "return", 1)]
    /\ UNCHANGED <<case_actions, clock, ret, uuids, engine_vars,
                 monitor_vars, scoring_vars>>

\* update_case_status, lines 93-98; then _log_case_action is entered.  For an
\* id that is not in the table the call returns at once.
BeginUpdate(t, case_id, new_status) ==
    /\ threads[t].pc = "idle"
    /\ Known(cases, case_id)
    /\ Len(case_actions) + Owed < MaxActions
    /\ cases' = SetStatus(cases, case_id, new_status, clock)
    /\ threads' = [threads EXCEPT ![t] =
           EnterLog(@, "update_case_status", case_id, "STATUS_CHANGED",
                    <<"Status changed", cases[RowOf(cases, case_id)].status,
                      new_status, "">>,
                    "SYSTEM", "return", 1)]
    /\ UNCHANGED <<case_actions, clock, ret, uuids, engine_vars,
                 monitor_vars, scoring_vars>>

\* assign_case, lines 111-115; then _log_case_action is entered
BeginAssign(t, case_id, analyst_name) ==
    /\ threads[t].pc = "idle"
    /\ Known(cases, case_id)
    /\ Len(case_actions) + Owed < MaxActions
    /\ cases' = SetAssignee(cases, case_id, analyst_name, clock)
    /\ threads' = [threads EXCEPT ![t] =
           EnterLog(@, "assign_case", case_id, "CASE_ASSIGNED",
                    <<"Case assigned to", analyst_name>>, "SYSTEM", "return", 1)]
    /\ UNCHANGED <<case_actions, clock, ret, uuids, engine_vars,
                 monitor_vars, scoring_vars>>

\* add_case_notes: _log_case_action is entered at once
BeginNotes(t, case_id, notes, analyst_name) ==
    /\ threads[t].pc = "idle"
    /\ Len(case_actions) + Owed < MaxActions
    /\ threads' = [threads EXCEPT ![t] =
           EnterLog(@, "add_case_notes", case_id, "NOTES_ADDED", <<notes>>,
                    analyst_name, "return", 1)]
    /\ UNCHANGED <<cases, case_actions, clock, ret, uuids, engine_vars,
                 monitor_vars, scoring_vars>>

\* close_case, line 181: update_case_status(case_id, 'CLOSED') up to its call
\* of _log_case_action; for an id that is not in the table it returns at once
\* and line 182 is next
BeginClose(t, case_id, resolution, analyst_name) ==
    /\ threads[t].pc = "idle"
    /\ Len(case_actions) + Owed + 1 < MaxActions
    /\ IF Known(cases, case_id)
       THEN /\ cases' = SetStatus(cases, case_id, "CLOSED", clock)
            /\ threads' = [threads EXCEPT ![t] =
                   [EnterLog(@, "close_case", case_id, "STATUS_CHANGED",
                             <<"Status changed",
                               cases[RowOf(cases, case_id)].status, "CLOSED", "">>,
                             "SYSTEM", "log_case_closed", 2)
                       EXCEPT !.resolution = resolution, !.closer = analyst_name]]
       ELSE /\ cases' = cases
            /\ threads' = [threads EXCEPT ![t] =
                   [EnterLog(@, "close_case", case_id, "CASE_CLOSED",
                             <<"Case closed. Resolution:", resolution>>,
                             analyst_name, "set_closure", 1)
                       EXCEPT !.resolution = resolution, !.closer = analyst_name]]
    /\ UNCHANGED <<case_actions, clock, ret, uuids, engine_vars,
                 monitor_vars, scoring_vars>>

\* _log_case_action, lines 127-137 up to the evaluation of pd.concat: the
\* action dict is built and self.case_actions is read
LogRead(t) ==
    /\ threads[t].pc = "log_read"
    /\ threads' = [threads EXCEPT ![t] =
           [@ EXCEPT !.pc = "log_store", !.seen = case_actions,
                     !.row = [action_id    |-> uuids + 1,
                              case_id      |-> threads[t].case_id,
                              action_type  |-> threads[t].action_type,
                              description  |-> threads[t].description,
                              analyst_name |-> threads[t].analyst_name,
                              timestamp    |-> clock]]]
    /\ uuids' = uuids + 1
    /\ UNCHANGED <<cases, case_actions, clock, ret, engine_vars,
                 monitor_vars, scoring_vars>>

\* line 137, the assignment: self.case_actions becomes the frame that was read
\* plus the new row; _log_case_action returns and the call goes on where its
\* caller continues (create_case_from_alert returns the case_id, close_case
\* goes on to line 182 or line 184, the others return)
StoreLog(t) ==
    /\ threads[t].pc = "log_store"
    /\ case_actions' = Append(threads[t].seen, threads[t].row)
    /\ LET th == [threads[t] EXCEPT !.owed = @ - 1, !.seen = <<>>, !.row = NoRow]
       IN  threads' = [threads EXCEPT ![t] =
               CASE th.then = "log_case_closed" ->
                        EnterLog(th, "close_case", th.case_id, "CASE_CLOSED",
                                 <<"Case closed. Resolution:", th.resolution>>,
                                 th.closer, "set_closure", 1)
                 [] th.then = "set_closure" ->
                        [th EXCEPT !.pc = "set_closure"]
                 [] OTHER ->
                        IF th.op = "create_case_from_alert"
                        THEN Leave([th EXCEPT !.returned = @ \cup {th.case_id}])
                        ELSE Leave(th)]
    /\ UNCHANGED <<cases, clock, ret, uuids, engine_vars,
                 monitor_vars, scoring_vars>>

\* close_case, lines 184-188; then the call returns
StoreClosure(t) ==
    /\ threads[t].pc = "set_closure"
    /\ cases' = IF Known(cases, threads[t].case_id)
                THEN SetClosure(cases, threads[t].case_id,
                                threads[t].resolution, clock)
                ELSE cases
    /\ threads' = [threads EXCEPT ![t] = Leave(@)]
    /\ UNCHANGED <<case_actions, clock, ret, uuids, engine_vars,
                 monitor_vars, scoring_vars>>

\* the alerts the threads create cases from
ThreadAlerts == {alert \in AlertPool : alert.alert_id \in {1}}

\* the calls of the threads, interleaved; all of them fall within one reading
\* of the clock
NextThreads ==
    \/ \E t \in Threads, alert \in ThreadAlerts : BeginCreate(t, alert)
    \/ \E t \in Threads : StoreCases(t)
    \/ \E t \in Threads, id \in HeldCaseIds : BeginUpdate(t, id, "IN_PROGRESS")
    \/ \E t \in Threads, id \in HeldCaseIds, a \in AnalystArgs : BeginAssign(t, id, a)
    \/ \E t \in Threads, id \in HeldCaseIds, n \in NotesArgs, a \in AnalystArgs :
           BeginNotes(t, id, n, a)
    \/ \E t \in Threads, id \in HeldCaseIds, r \in ResolutionArgs, a \in AnalystArgs :
           BeginClose(t, id, r, a)
    \/ \E t \in Threads : LogRead(t)
    \/ \E t \in Threads : StoreLog(t)
    \/ \E t \in Threads : StoreClosure(t)

SpecThreads == Init /\ [][NextThreads]_vars

\* ------------------------------------------------- alert engine: actions
\* the engine just constructed and about to be given one customer record
InitAlerts ==
    /\ cases = <<>>
    /\ case_actions = <<>>
    /\ clock = 0
    /\ ret = Returned("__init__", None)
    /\ profile \in Profiles
    /\ alert_ret = Pending
    /\ alert_uuids = 0
    /\ threads = [t \in Threads |-> Idle]
    /\ uuids = 0
    /\ profiles = <<>>
    /\ new_alerts = <<>>
    /\ active_alerts = <<>>
    /\ alert_history = <<>>
    /\ risk_engine = RiskScoringEngine
    /\ customer_data = [columns |-> TxColumns, rows |-> <<>>]
    /\ score_ret = Pending

\* _evaluate_customer_alerts(profile): the list is returned only if no
\* subscript raised; every alert built before that drew one uuid
EvaluateCustomer ==
    /\ alert_ret.op = "pending"
    /\ LET r == evaluate_customer_alerts(profile, alert_uuids + 1)
       IN  /\ alert_ret' = IF r.raised = "none"
                           THEN EngineReturned("_evaluate_customer_alerts", r.value)
                           ELSE EngineRaised("_evaluate_customer_alerts", r.raised)
           /\ alert_uuids' = alert_uuids + Len(r.value)
    /\ UNCHANGED <<profile, manager_vars, thread_vars, monitor_vars,
                 scoring_vars>>

\* _create_alert(customer_id, alert_type, details) called on its own with a
\* member of AlertType
CreateAlert(alert_type) ==
    /\ alert_ret.op = "pending"
    /\ alert_ret' = EngineReturned("_create_alert",
                        <<create_alert(alert_uuids + 1, NoProfile.customer_id,
                                       alert_type, <<"details">>)>>)
    /\ alert_uuids' = alert_uuids + 1
    /\ UNCHANGED <<profile, manager_vars, thread_vars, monitor_vars,
                 scoring_vars>>

NextAlerts ==
    \/ EvaluateCustomer
    \/ \E alert_type \in AlertType : CreateAlert(alert_type)

SpecAlerts == InitAlerts /\ [][NextAlerts]_vars

\* --------------------------------------------- risk scoring engine: actions
\* RiskScoringEngine() just constructed, and the transactions of one customer
InitScoring ==
    /\ cases = <<>>
    /\ case_actions = <<>>
    /\ clock = 0
    /\ ret = Returned("__init__", None)
    /\ profile = NoProfile
    /\ alert_ret = Pending
    /\ alert_uuids = 0
    /\ threads = [t \in Threads |-> Idle]
    /\ uuids = 0
    /\ profiles = <<>>
    /\ new_alerts = <<>>
    /\ active_alerts = <<>>
    /\ alert_history = <<>>
    /\ risk_engine = RiskScoringEngine
    /\ customer_data \in TransactionSets
    /\ score_ret = Pending

\* calculate_customer_risk_score(customer_data): no statement of it or of the
\* methods it calls assigns to self
CalculateCustomerRiskScore ==
    /\ score_ret' = EngineReturned("calculate_customer_risk_score",
                        calculate_customer_risk_score(risk_engine, customer_data))
    /\ UNCHANGED <<risk_engine, customer_data, manager_vars, engine_vars,
                   thread_vars, monitor_vars>>

\* calculate_fraud_history_score(customer_data) called on its own
CalculateFraudHistoryScore ==
    /\ score_ret' = EngineReturned("calculate_fraud_history_score",
                        calculate_fraud_history_score(customer_data))
    /\ UNCHANGED <<risk_engine, customer_data, manager_vars, engine_vars,
                   thread_vars, monitor_vars>>

\* the caller presents the same transactions in another order
Reorder ==
    /\ customer_data' = [customer_data EXCEPT !.rows = Reversed(@)]
    /\ UNCHANGED <<risk_engine, score_ret, manager_vars, engine_vars,
                   thread_vars, monitor_vars>>

NextScoring ==
    \/ CalculateCustomerRiskScore
    \/ CalculateFraudHistoryScore
    \/ Reorder

SpecScoring == InitScoring /\ [][NextScoring]_vars

\* ------------------------------------------- alert batches, alert monitor
\* the customer records of the batches given to generate_alerts: a record
\* that triggers no rule, one with a high score, a PEP, a PEP record without
\* the occupation key, and one with a large transaction volume
BatchProfiles ==
    {p \in Profiles :
        /\ p.present \in {ProfileFields, ProfileFields \ {"occupation"}}
        /\ "occupation" \notin p.present => p.is_pep
        /\ ~p.sanctions_risk /\ p.fraud_count = 0
        /\ <<p.enhanced_risk_score, p.is_pep, p.total_amount>>
               \in {<<0, FALSE, 0>>, <<90, FALSE, 0>>, <<0, TRUE, 0>>,
                    <<0, FALSE, 100000>>}}

\* customer_profiles: frames of up to MaxBatch rows
Batches == UNION {[1..n -> BatchProfiles] : n \in 0..MaxBatch}

\* lines 70-72, one turn of the loop: alerts.extend(customer_alerts) unless
\* _evaluate_customer_alerts raised; drawn counts the uuids drawn so far
ExtendAlerts(acc, r) ==
    [raised |-> r.raised,
     value  |-> IF r.raised = "none" THEN acc.value \o r.value ELSE acc.value,
     drawn  |-> acc.drawn + Len(r.value)]

\* lines 68-72: the loop over customer_profiles.iterrows(); an exception
\* leaves the loop and the method
RECURSIVE EvaluateProfiles(_, _, _)
EvaluateProfiles(rows, first_uuid, acc) ==
    IF rows = <<>> \/ acc.raised # "none" THEN acc
    ELSE EvaluateProfiles(Tail(rows), first_uuid,
             ExtendAlerts(acc, evaluate_customer_alerts(Head(rows),
                                                        first_uuid + acc.drawn)))

\* lines 74-79: a row of alerts_df.  The columns closed_at and
\* resolution_notes exist only once close_alert has set them; until then a
\* row has no value there.
AlertRow(alert, now) ==
    [alert_id         |-> alert.alert_id,
     customer_id      |-> alert.customer_id,
     alert_type       |-> alert.alert_type,
     priority         |-> alert.priority,
     description      |-> alert.description,
     details          |-> alert.details,
     risk_level       |-> alert.risk_level,
     created_at       |-> now,
     status           |-> "OPEN",
     assigned_to      |-> None,
     closed_at        |-> NaT,
     resolution_notes |-> NoValue]

\* generate_alerts: the exception raised, the frame returned, the uuids drawn
generate_alerts(rows, first_uuid, now) ==
    [EvaluateProfiles(rows, first_uuid,
                      [raised |-> "none", value |-> <<>>, drawn |-> 0])
        EXCEPT !.value = [k \in 1..Len(@) |-> AlertRow(@[k], now)]]

\* process_alerts with alerts dropped that repeat an open alert of the same
\* customer and type
ConcatDeduplicated(table, frame) ==
    table \o SelectSeq(frame,
                 LAMBDA a : ~\E k \in 1..Len(table) :
                                /\ table[k].customer_id = a.customer_id
                                /\ table[k].alert_type = a.alert_type
                                /\ table[k].status = "OPEN")

\* pd.concat([table, new_alerts], ignore_index=True)
Concat(table, frame) == table \o frame

\* the dict get_alert_summary returns
AlertSummary(table) ==
    IF Len(table) = 0
    THEN [total |-> 0, by_priority |-> <<>>, by_type |-> <<>>]
    ELSE [total         |-> Len(table),
          by_priority   |-> ValueCounts(table, "priority"),
          by_type       |-> ValueCounts(table, "alert_type"),
          by_risk_level |-> ValueCounts(table, "risk_level")]

\* the filter of get_high_priority_alerts with a condition on status added
HighPriorityAlertsOpenOnly(table) ==
    SelectSeq(table, LAMBDA a : a.priority \in {"CRITICAL", "HIGH"}
                                /\ a.status = "OPEN")

\* the filter of get_high_priority_alerts
HighPriorityAlerts(table) ==
    SelectSeq(table, LAMBDA a : a.priority \in {"CRITICAL", "HIGH"})

\* close_alert on the active alerts: every row with this alert_id
CloseRows(table, alert_id, resolution_notes, now) ==
    [k \in 1..Len(table) |->
        IF table[k].alert_id = alert_id
        THEN [table[k] EXCEPT !.status = "CLOSED", !.closed_at = now,
                              !.resolution_notes = resolution_notes]
        ELSE table[k]]

\* --------------------------------------- alert batches, monitor: actions
\* AMLAlertEngine() and AlertMonitor() just constructed, and the batch of
\* customer records the caller holds
InitMonitor ==
    /\ cases = <<>>
    /\ case_actions = <<>>
    /\ clock = 0
    /\ ret = Returned("__init__", None)
    /\ profile = NoProfile
    /\ alert_ret = Pending
    /\ alert_uuids = 0
    /\ threads = [t \in Threads |-> Idle]
    /\ uuids = 0
    /\ profiles \in Batches
    /\ new_alerts = <<>>
    /\ active_alerts = <<>>
    /\ alert_history = <<>>
    /\ risk_engine = RiskScoringEngine
    /\ customer_data = [columns |-> TxColumns, rows |-> <<>>]
    /\ score_ret = Pending

\* new_alerts = generate_alerts(profiles): the caller's variable is assigned
\* only if the call returns
GenerateAlerts ==
    /\ alert_uuids + generate_alerts(profiles, alert_uuids + 1, clock).drawn
           <= MaxAlerts
    /\ alert_uuids' =
           alert_uuids + generate_alerts(profiles, alert_uuids + 1, clock).drawn
    /\ IF generate_alerts(profiles, alert_uuids + 1, clock).raised = "none"
       THEN /\ new_alerts' = generate_alerts(profiles, alert_uuids + 1, clock).value
            /\ alert_ret' = EngineReturned("generate_alerts", new_alerts')
       ELSE /\ new_alerts' = new_alerts
            /\ alert_ret' = EngineRaised("generate_alerts",
                   generate_alerts(profiles, alert_uuids + 1, clock).raised)
    /\ UNCHANGED <<profile, profiles, active_alerts, alert_history, manager_vars,
                   thread_vars, scoring_vars>>

\* process_alerts(new_alerts)
ProcessAlerts ==
    /\ Len(active_alerts) + Len(new_alerts) <= MaxAlerts
    /\ IF Len(new_alerts) = 0
       THEN UNCHANGED <<active_alerts, alert_history>>
       ELSE /\ active_alerts' = Concat(active_alerts, new_alerts)
            /\ alert_history' = Concat(alert_history, new_alerts)
    /\ alert_ret' = EngineReturned("process_alerts", <<>>)
    /\ UNCHANGED <<profile, alert_uuids, profiles, new_alerts, manager_vars,
                   thread_vars, scoring_vars>>

\* close_alert(alert_id, resolution_notes)
CloseAlert(alert_id, resolution_notes) ==
    /\ IF Len(active_alerts) > 0
          /\ \E k \in 1..Len(active_alerts) : active_alerts[k].alert_id = alert_id
       THEN active_alerts' = CloseRows(active_alerts, alert_id, resolution_notes,
                                       clock)
       ELSE active_alerts' = active_alerts
    /\ alert_ret' = EngineReturned("close_alert", <<>>)
    /\ UNCHANGED <<profile, alert_uuids, profiles, new_alerts, alert_history,
                   manager_vars, thread_vars, scoring_vars>>

GetAlertSummary ==
    /\ alert_ret' = EngineReturned("get_alert_summary", AlertSummary(active_alerts))
    /\ UNCHANGED <<profile, alert_uuids, monitor_vars, manager_vars, thread_vars,
                   scoring_vars>>

\* get_high_priority_alerts: the filtered rows, newest first (rows created at
\* the same time in either order)
GetHighPriorityAlerts ==
    /\ \E sorted \in SortedDescending(HighPriorityAlerts(active_alerts)) :
           alert_ret' = EngineReturned("get_high_priority_alerts", sorted)
    /\ UNCHANGED <<profile, alert_uuids, monitor_vars, manager_vars, thread_vars,
                   scoring_vars>>

\* the alert ids close_alert is called with: every id drawn so far and one
\* that no alert has
AlertIdArgs == 0..alert_uuids

NextMonitor ==
    \/ GenerateAlerts
    \/ ProcessAlerts
    \/ \E alert_id \in AlertIdArgs, notes \in NotesArgs : CloseAlert(alert_id, notes)
    \/ GetAlertSummary
    \/ GetHighPriorityAlerts
    \/ Tick /\ UNCHANGED <<engine_vars, thread_vars, monitor_vars, scoring_vars>>

SpecMonitor == InitMonitor /\ [][NextMonitor]_vars

\* ------------------------------------------------------------- properties
\* a mutating call of the case manager with this case_id argument (any values
\* of its other arguments) is the step being taken
MutationOn(case_id) ==
    \/ \E st \in StatusArgs : update_case_status(case_id, st, "")
    \/ \E a \in AnalystArgs : assign_case(case_id, a)
    \/ \E n \in NotesArgs, a \in AnalystArgs : add_case_notes(case_id, n, a)
    \/ \E r \in ResolutionArgs, a \in AnalystArgs : close_case(case_id, r, a)

\* C1: once a case's status is CLOSED it stays CLOSED, whatever mutating call
\* (with whatever target status) comes later.
C1_ClosedStaysClosed ==
    [][\A i \in 1..Len(cases) :
          cases[i].status = "CLOSED" =>
              /\ i <= Len(cases')
              /\ cases'[i].case_id = cases[i].case_id
              /\ cases'[i].status = "CLOSED"]_vars

\* C2: a mutating call on a case that is already CLOSED ends in an
\* InvalidTransitionError, and leaves every field of the case and the action
\* log as they were.
C2_ClosedCaseMutationRejected ==
    [][\A i \in 1..Len(cases) :
          (cases[i].status = "CLOSED" /\ MutationOn(cases[i].case_id)) =>
              /\ ret'.raised = "InvalidTransitionError"
              /\ cases' = cases
              /\ case_actions' = case_actions]_vars

\* C3: every case with status CLOSED has a resolution and a closed_at value
\* (so update_case_status(case_id, 'CLOSED') cannot close a case without one).
C3_ClosedHasResolution ==
    \A i \in 1..Len(cases) :
        cases[i].status = "CLOSED" =>
            cases[i].resolution # NoValue /\ cases[i].closed_at # NaT

\* C4: update_case_status with a case_id that no case has (also when the table
\* is empty) ends in a CaseNotFoundError instead of returning normally.
C4_UnknownIdRaisesNotFound ==
    [][\A st \in StatusArgs :
          (~Known(cases, UnknownCaseId)
             /\ update_case_status(UnknownCaseId, st, "")) =>
              ret'.raised = "CaseNotFoundError"]_vars

\* C5: a mutating call with an unknown case_id leaves the case table and the
\* action log unchanged: no action is recorded for an id that has no case.
C5_UnknownIdChangesNothing ==
    [][(~Known(cases, UnknownCaseId) /\ MutationOn(UnknownCaseId)) =>
          (cases' = cases /\ case_actions' = case_actions)]_vars

\* the positions of the log that hold actions of one case_id, in log order
ActionsOf(log, case_id) == {k \in 1..Len(log) : log[k].case_id = case_id}

\* C6: for every case_id in the action log, the earliest action of that case_id
\* is CASE_CREATED, and its actions are in non-decreasing timestamp order.
C6_AuditOrder ==
    \A k \in 1..Len(case_actions) :
        LET mine == ActionsOf(case_actions, case_actions[k].case_id)
            first == CHOOSE m \in mine : \A n \in mine : m <= n
        IN  /\ case_actions[first].action_type = "CASE_CREATED"
            /\ \A n \in mine :
                  case_actions[first].timestamp <= case_actions[n].timestamp
            /\ \A m, n \in mine :
                  m < n => case_actions[m].timestamp <= case_actions[n].timestamp

\* the number of STATUS_CHANGED actions the log holds for one case_id
StatusChangedCount(log, case_id) ==
    Cardinality({k \in ActionsOf(log, case_id) :
                    log[k].action_type = "STATUS_CHANGED"})

\* C7: the number of STATUS_CHANGED actions of a case equals the number of
\* status transitions performed on it (changes of status to a different
\* value). Both start at 0 for a new case, so this is: every step adds as many
\* STATUS_CHANGED actions for a case as it changes that case's status.
C7_StatusChangedCountsTransitions ==
    [][\A i \in 1..Len(cases') :
          LET id     == cases'[i].case_id
              before == IF i <= Len(cases)
                        THEN StatusChangedCount(case_actions, id) ELSE 0
              moved  == IF i <= Len(cases) /\ cases'[i].status # cases[i].status
                        THEN 1 ELSE 0
          IN  StatusChangedCount(case_actions', id) = before + moved]_vars

\* C8: the action log is append-only: the log before a step is a prefix of the
\* log after it.
C8_LogAppendOnly ==
    [][/\ Len(case_actions') >= Len(case_actions)
       /\ SubSeq(case_actions', 1, Len(case_actions)) = case_actions]_vars

\* a log that close_case has appended its two rows to, after earlier rows
C8_Witness ==
    /\ Len(case_actions) >= 3
    /\ case_actions[Len(case_actions)].action_type = "CASE_CLOSED"
    /\ case_actions[Len(case_actions) - 1].action_type = "STATUS_CHANGED"

\* C9: a case's due_date is set by create_case_from_alert and no later
\* operation (mutation, creation of another case, query) changes it.
C9_DueDateFixed ==
    [][\A i \in 1..Len(cases) :
          /\ i <= Len(cases')
          /\ cases'[i].case_id = cases[i].case_id
          /\ cases'[i].due_date = cases[i].due_date]_vars

\* a case that was updated after the clock moved, next to a later case
C9_Witness ==
    /\ Len(cases) = 2
    /\ cases[1].status # "OPEN"
    /\ cases[1].last_updated > cases[1].created_at

\* the SLA the specification states, in hours
StatedSlaHours(priority) ==
    CASE priority = "CRITICAL" -> 4
      [] priority = "HIGH"     -> 24
      [] priority = "MEDIUM"   -> 72
      [] OTHER                 -> 168

\* C10: due_date - created_at is exactly 4, 24, 72 or 168 hours for priority
\* CRITICAL, HIGH, MEDIUM, LOW (168 for any other priority), also when the
\* clock advances while the case is being built.
C10_ExactSla ==
    \A i \in 1..Len(cases) :
        cases[i].due_date - cases[i].created_at
            = StatedSlaHours(cases[i].priority) * SecondsPerHour

\* the assignee the specification states for a priority
StatedAssignee(priority) ==
    CASE priority = "CRITICAL" -> "Senior_AML_Analyst"
      [] priority = "HIGH"     -> "AML_Analyst_Team"
      [] OTHER                 -> "Junior_AML_Analyst"

\* C11: create_case_from_alert adds one case that is assigned by the alert's
\* priority (CRITICAL: Senior_AML_Analyst, HIGH: AML_Analyst_Team, any other
\* value: Junior_AML_Analyst), copies the alert's priority, has status OPEN,
\* and the call returns that case's case_id.
C11_AssignedByPriority ==
    [][\A alert \in AlertPool :
          create_case_from_alert(alert) =>
              /\ Len(cases') = Len(cases) + 1
              /\ SubSeq(cases', 1, Len(cases)) = cases
              /\ cases'[Len(cases')].assigned_to = StatedAssignee(alert.priority)
              /\ cases'[Len(cases')].priority = alert.priority
              /\ cases'[Len(cases')].status = "OPEN"
              /\ ret'.raised = "none"
              /\ ret'.value = cases'[Len(cases')].case_id]_vars

\* create_case_from_alert has just returned the id of a case made from an alert
\* whose priority is none of the four known ones, after a HIGH one
C11_Witness ==
    /\ ret.op = "create_case_from_alert"
    /\ Len(cases) = 2
    /\ ret.value = cases[2].case_id
    /\ cases[2].priority = "URGENT"
    /\ cases[2].assigned_to = "Junior_AML_Analyst"
    /\ cases[1].priority = "HIGH"
    /\ cases[1].assigned_to = "AML_Analyst_Team"

\* the case type the specification states for an alert type
StatedCaseType(alert_type) ==
    CASE alert_type = "PEP_DETECTED"       -> "PEP_REVIEW"
      [] alert_type = "SANCTIONS_MATCH"    -> "SANCTIONS_CHECK"
      [] alert_type = "FRAUD_INDICATOR"    -> "FRAUD_INVESTIGATION"
      [] alert_type = "HIGH_RISK_CUSTOMER" -> "ENHANCED_DUE_DILIGENCE"
      [] OTHER                             -> "AML_INVESTIGATION"

\* C12: the case created from an alert has the case_type the fixed mapping
\* gives for the alert's alert_type, AML_INVESTIGATION for an unknown type.
C12_CaseTypeByAlertType ==
    [][\A alert \in IntakeAlerts :
          create_case_from_alert(alert) =>
              /\ Len(cases') = Len(cases) + 1
              /\ cases'[Len(cases')].case_type = StatedCaseType(alert.alert_type)
              /\ cases'[Len(cases')].case_type \in CaseType]_vars

\* a case made from a FRAUD_INDICATOR alert next to one made from an alert of
\* an unknown type
C12_Witness ==
    /\ Len(cases) = 2
    /\ cases[1].description[2] = "FRAUD_INDICATOR"
    /\ cases[1].case_type = "FRAUD_INVESTIGATION"
    /\ cases[2].description[2] = "MANUAL_REFERRAL"
    /\ cases[2].case_type = "AML_INVESTIGATION"

\* C13: the case_ids of all cases are pairwise distinct, and no two cases
\* carry the same alert_id (one alert has one case), also after repeated
\* create_case_from_alert calls with the same alert.
C13_OneCasePerAlert ==
    \A i, j \in 1..Len(cases) :
        i # j => /\ cases[i].case_id # cases[j].case_id
                 /\ cases[i].alert_id # cases[j].alert_id

\* C14: every case's status is one of the five CaseStatus values; a new case
\* is OPEN; and no step takes a case back to OPEN or out of CLOSED (a call
\* with a target outside the values or the lifecycle leaves the status alone).
C14_LifecycleFollowed ==
    [][/\ \A i \in 1..Len(cases') :
             /\ cases'[i].status \in CaseStatus
             /\ i > Len(cases) => cases'[i].status = "OPEN"
       /\ \A i \in 1..Len(cases) :
             (i <= Len(cases') /\ cases'[i].status # cases[i].status) =>
                 /\ cases'[i].status # "OPEN"
                 /\ cases[i].status # "CLOSED"]_vars

\* rows holds exactly the rows of table cs at the positions idx, each once
ExactlyRows(rows, cs, idx) ==
    /\ Len(rows) = Cardinality(idx)
    /\ \A i \in idx : \E k \in 1..Len(rows) : rows[k] = cs[i]
    /\ \A k \in 1..Len(rows) : \E i \in idx : rows[k] = cs[i]

\* C15: the queries are read-only and exact.  get_overdue_cases returns
\* exactly the cases with status other than CLOSED and due_date < now;
\* get_high_priority_cases returns exactly the cases with priority CRITICAL or
\* HIGH and status other than CLOSED, ordered by created_at descending; a case
\* whose status is CLOSED is in neither result; and neither of them, nor
\* get_case_summary, changes the case table or the action log.
C15_QueriesReadOnlyExact ==
    [][/\ get_overdue_cases =>
             /\ cases' = cases /\ case_actions' = case_actions
             /\ ret'.raised = "none"
             /\ ExactlyRows(ret'.value, cases,
                    {i \in 1..Len(cases) : /\ cases[i].status # "CLOSED"
                                           /\ cases[i].due_date < clock})
             /\ \A k \in 1..Len(ret'.value) : ret'.value[k].status # "CLOSED"
       /\ get_high_priority_cases =>
             /\ cases' = cases /\ case_actions' = case_actions
             /\ ret'.raised = "none"
             /\ ExactlyRows(ret'.value, cases,
                    {i \in 1..Len(cases) : /\ cases[i].priority \in {"CRITICAL", "HIGH"}
                                           /\ cases[i].status # "CLOSED"})
             /\ \A k, l \in 1..Len(ret'.value) :
                    k < l => ret'.value[k].created_at >= ret'.value[l].created_at
             /\ \A k \in 1..Len(ret'.value) : ret'.value[k].status # "CLOSED"
       /\ get_case_summary =>
             /\ cases' = cases /\ case_actions' = case_actions
             /\ ret'.raised = "none"]_vars

\* get_overdue_cases has just returned the one case that is past its due date,
\* out of a table whose other case is due exactly now
C15_Witness ==
    /\ ret.op = "get_overdue_cases"
    /\ Len(cases) = 2
    /\ Len(ret.value) = 1
    /\ \E i, j \in 1..Len(cases) :
           /\ cases[i] = ret.value[1]
           /\ cases[i].due_date < clock
           /\ cases[j].status # "CLOSED"
           /\ cases[j].due_date = clock

\* the log holds an action of this type for this case_id
Logged(log, case_id, action_type) ==
    \E k \in 1..Len(log) :
        log[k].case_id = case_id /\ log[k].action_type = action_type

\* C16: interleaved calls behave as if serialized.  Every case_id that
\* create_case_from_alert has returned is in the case table and has its
\* CASE_CREATED action; once no call is in progress every mutation that shows
\* in the table (creation, status change, assignment, closure) has its action
\* in the log; and for every case in the table the earliest action is
\* CASE_CREATED and its actions are in timestamp order.
C16_ConcurrentAsSerial ==
    /\ \A t \in Threads : \A id \in threads[t].returned :
           Known(cases, id) /\ Logged(case_actions, id, "CASE_CREATED")
    /\ (\A t \in Threads : threads[t].pc = "idle") =>
           \A i \in 1..Len(cases) :
               /\ Logged(case_actions, cases[i].case_id, "CASE_CREATED")
               /\ cases[i].status # "OPEN" =>
                      Logged(case_actions, cases[i].case_id, "STATUS_CHANGED")
               /\ cases[i].assigned_to \in AnalystArgs =>
                      Logged(case_actions, cases[i].case_id, "CASE_ASSIGNED")
               /\ cases[i].resolution # NoValue =>
                      Logged(case_actions, cases[i].case_id, "CASE_CLOSED")
    /\ \A i \in 1..Len(cases) :
           LET mine == ActionsOf(case_actions, cases[i].case_id)
           IN  /\ \A m \in mine :
                      (\A n \in mine : m <= n) =>
                          case_actions[m].action_type = "CASE_CREATED"
               /\ \A m, n \in mine :
                      m < n => case_actions[m].timestamp <= case_actions[n].timestamp

\* C17: a call is all-or-nothing: no state between two steps of a call shows
\* part of its effect.  While close_case is in progress on a case, the case
\* is not CLOSED with resolution or closed_at still unset, and the log does
\* not hold its STATUS_CHANGED action without its CASE_CLOSED action; while
\* create_case_from_alert is in progress, its case is not in the table
\* without its CASE_CREATED action.
C17_AllOrNothing ==
    \A t \in Threads :
        LET id == threads[t].case_id
        IN  /\ (threads[t].pc # "idle" /\ threads[t].op = "close_case"
                  /\ Known(cases, id)) =>
                   /\ ~(/\ cases[RowOf(cases, id)].status = "CLOSED"
                        /\ \/ cases[RowOf(cases, id)].resolution = NoValue
                           \/ cases[RowOf(cases, id)].closed_at = NaT)
                   /\ ~(/\ \E k \in 1..Len(case_actions) :
                               /\ case_actions[k].case_id = id
                               /\ case_actions[k].action_type = "STATUS_CHANGED"
                               /\ case_actions[k].description[3] = "CLOSED"
                        /\ ~Logged(case_actions, id, "CASE_CLOSED"))
            /\ (threads[t].pc # "idle" /\ threads[t].op = "create_case_from_alert") =>
                   ~(Known(cases, id) /\ ~Logged(case_actions, id, "CASE_CREATED"))

\* the positions of the alerts of one type in a list of alerts
AlertsOfType(alerts, alert_type) ==
    {k \in 1..Len(alerts) : alerts[k].alert_type = alert_type}

\* C18: evaluating a record with is_pep = true yields exactly one PEP_DETECTED
\* alert, with priority CRITICAL and risk_level CRITICAL, whatever the values
\* or the absence of the record's other fields; with is_pep = false it yields
\* no PEP_DETECTED alert.
C18_PepAlwaysAlerted ==
    (alert_ret.op = "_evaluate_customer_alerts" /\ Has(profile, "is_pep")) =>
        LET pep == AlertsOfType(alert_ret.value, "PEP_DETECTED")
        IN  IF profile.is_pep
            THEN /\ alert_ret.raised = "none"
                 /\ Cardinality(pep) = 1
                 /\ \A k \in pep : /\ alert_ret.value[k].priority = "CRITICAL"
                                   /\ alert_ret.value[k].risk_level = "CRITICAL"
            ELSE pep = {}

\* the record has every key the rules subscript for its values: the three
\* that are always read, customer_id, and the keys the details of its PEP and
\* sanctions alerts are built from
Evaluable(p) ==
    /\ {"customer_id", "enhanced_risk_score", "is_pep", "sanctions_risk"}
           \subseteq p.present
    /\ p.is_pep => {"pep_category", "occupation"} \subseteq p.present
    /\ p.sanctions_risk => Has(p, "nationality")

\* the record of the end-to-end scenario: score 90, PEP, no sanctions risk,
\* no fraud, no large transaction volume
Scenario(p) ==
    /\ Evaluable(p)
    /\ p.enhanced_risk_score = 90 /\ p.is_pep /\ ~p.sanctions_risk
    /\ Has(p, "fraud_count") => p.fraud_count = 0
    /\ Has(p, "total_amount") => p.total_amount < alert_thresholds.large_transaction

StatedRiskLevel(alert_type) ==
    CASE alert_type \in {"PEP_DETECTED", "SANCTIONS_MATCH", "FRAUD_INDICATOR"}
             -> "CRITICAL"
      [] alert_type \in {"HIGH_RISK_CUSTOMER", "SUSPICIOUS_PATTERN"} -> "HIGH"
      [] OTHER -> "MEDIUM"

\* C20: every alert the engine produces has the risk_level the fixed table
\* gives for its alert_type (so risk_level is a function of alert_type alone,
\* whatever the alert's priority and whichever threshold branch raised it).
C20_RiskLevelByType ==
    \A k \in 1..Len(alert_ret.value) :
        alert_ret.value[k].risk_level
            = StatedRiskLevel(alert_ret.value[k].alert_type)

\* an evaluation in which all five rules fired, the score rule in its
\* critical branch
C20_Witness ==
    /\ alert_ret.op = "_evaluate_customer_alerts"
    /\ profile.enhanced_risk_score >= 85
    /\ Len(alert_ret.value) = 5
    /\ alert_ret.value[4].alert_type = "FRAUD_INDICATOR"
    /\ alert_ret.value[5].alert_type = "LARGE_TRANSACTION"

\* the record has customer_id and the fields the specification lists as the
\* enriched input (total_amount is optional there)
Enriched(p) ==
    {"customer_id", "enhanced_risk_score", "is_pep", "pep_category",
     "sanctions_risk", "nationality", "fraud_count"} \subseteq p.present

\* the alert types whose rule the specification says the record triggers
Triggered(p) ==
    {ty \in AlertType :
        \/ ty = "HIGH_RISK_CUSTOMER" /\ p.enhanced_risk_score >= 60
        \/ ty = "PEP_DETECTED" /\ p.is_pep
        \/ ty = "SANCTIONS_MATCH" /\ p.sanctions_risk
        \/ ty = "FRAUD_INDICATOR" /\ p.fraud_count >= 1
        \/ ty = "LARGE_TRANSACTION" /\ Has(p, "total_amount")
                                     /\ p.total_amount >= 100000}

\* the alerts are one per triggered rule and none for another type, with the
\* stated priorities of the sanctions, fraud and large-transaction alerts
OnePerTriggeredRule(p, alerts) ==
    /\ \A ty \in AlertType :
           Cardinality(AlertsOfType(alerts, ty))
               = IF ty \in Triggered(p) THEN 1 ELSE 0
    /\ Len(alerts) <= 5
    /\ \A k \in 1..Len(alerts) :
           /\ alerts[k].alert_type \in {"SANCTIONS_MATCH", "FRAUD_INDICATOR"}
                  => alerts[k].priority = "CRITICAL"
           /\ alerts[k].alert_type = "LARGE_TRANSACTION"
                  => alerts[k].priority = "MEDIUM"

\* C21: for every enriched profile one evaluation pass returns exactly one
\* alert per triggered rule and none for an untriggered rule (score >= 60,
\* is_pep, sanctions_risk, fraud_count >= 1, total_amount present and
\* >= 100,000), so between 0 and 5 alerts of pairwise distinct types.
C21_OnePerTriggeredRule ==
    (alert_ret.op = "_evaluate_customer_alerts" /\ Enriched(profile)) =>
        /\ alert_ret.raised = "none"
        /\ OnePerTriggeredRule(profile, alert_ret.value)

\* the same on the records that also carry occupation when the PEP rule
\* fires
C21_OnePerTriggeredRuleEvaluable ==
    (alert_ret.op = "_evaluate_customer_alerts" /\ Enriched(profile)
        /\ Evaluable(profile)) =>
        /\ alert_ret.raised = "none"
        /\ OnePerTriggeredRule(profile, alert_ret.value)

\* the category the specification's thresholds give a score, the score
\* counted in hundredths
StatedCategory(hundredths) ==
    IF hundredths >= 8500 THEN "CRITICAL"
    ELSE IF hundredths >= 6000 THEN "HIGH"
    ELSE IF hundredths >= 3000 THEN "MEDIUM"
    ELSE "LOW"

\* C24: for every non-empty transaction set calculate_customer_risk_score
\* returns a total_score in [0,100] and the risk_category that the returned
\* total_score has against the thresholds 85, 60 and 30.
C24_CategoryOfReturnedScore ==
    (score_ret.op = "calculate_customer_risk_score"
        /\ customer_data.rows # <<>>) =>
        /\ score_ret.value.total_score >= 0
        /\ score_ret.value.total_score <= 10000
        /\ score_ret.value.risk_category
               = StatedCategory(score_ret.value.total_score)

\* C25: scoring a customer with an empty transaction set ends with an
\* EmptyInputError and returns no profile.
C25_EmptyInputRaises ==
    (score_ret.op = "calculate_customer_risk_score"
        /\ customer_data.rows = <<>>) =>
        score_ret.raised = "EmptyInputError"

\* the transaction set of the end-to-end scenario: 10 transactions, 8 of
\* them CASH_OUT and 2 of a low-risk type, exactly 1 marked fraud, the
\* largest amount 150,000
ScenarioData(data) ==
    /\ data.columns = TxColumns
    /\ Len(data.rows) = 10
    /\ Cardinality({i \in 1..10 : data.rows[i].type = "CASH_OUT"}) = 8
    /\ Cardinality({i \in 1..10 :
                        data.rows[i].type \in {"PAYMENT", "CASH_IN", "DEBIT"}}) = 2
    /\ ColumnSum(data.rows, "isFraud") = 1
    /\ ColumnMax(data.rows, "amount") = 150000

\* C26 as stated: the scenario yields amount score 60, cash-pattern score 80,
\* fraud-history score 60, transaction-type score 50, total_score 59.5 and
\* risk_category MEDIUM.
C26_ScenarioScoresMedium ==
    (score_ret.op = "calculate_customer_risk_score"
        /\ ScenarioData(customer_data)) =>
        /\ score_ret.value.components.amount_risk = 6000
        /\ score_ret.value.components.cash_pattern = 8000
        /\ score_ret.value.components.fraud_history = 6000
        /\ score_ret.value.components.transaction_type = 5000
        /\ score_ret.value.total_score = 5950
        /\ score_ret.value.risk_category = "MEDIUM"

\* C26, amended: the scenario yields amount score 60, cash-pattern score 80,
\* transaction-type score 50 and, its fraud rate being exactly 0.1,
\* fraud-history score 80; so total_score is 12.5 + 18 + 28 + 8 = 66.5 and
\* risk_category is HIGH.
C26_ScenarioScoresHigh ==
    (score_ret.op = "calculate_customer_risk_score"
        /\ ScenarioData(customer_data)) =>
        /\ score_ret.raised = "none"
        /\ score_ret.value.components.amount_risk = 6000
        /\ score_ret.value.components.cash_pattern = 8000
        /\ score_ret.value.components.fraud_history = 8000
        /\ score_ret.value.components.transaction_type = 5000
        /\ score_ret.value.total_score = 6650
        /\ score_ret.value.risk_category = "HIGH"

\* the scenario set has been scored
C26_Witness ==
    /\ score_ret.op = "calculate_customer_risk_score"
    /\ ScenarioData(customer_data)
    /\ score_ret.value.total_score = 6650

\* C27: scoring is a deterministic, order-independent, side-effect-free
\* function of the transaction set: a run of calculate_customer_risk_score
\* that follows a run on a permutation of the same transactions returns the
\* same component scores, total_score and risk_category, and no run changes
\* the engine's weights, thresholds or type table.
C27_OrderIndependent ==
    [][/\ risk_engine' = risk_engine
       /\ (score_ret.op = "calculate_customer_risk_score"
              /\ score_ret'.op = "calculate_customer_risk_score")
             => score_ret'.value = score_ret.value]_vars

\* the fraud-history score the specification states for f fraud transactions
\* out of n, in exact arithmetic: 100 when f/n >= 0.5, 80 when f/n >= 0.1,
\* 60 when f > 0, else 0
StatedFraudScore(f, n) ==
    IF 2 * f >= n THEN 100
    ELSE IF 10 * f >= n THEN 80
    ELSE IF f > 0 THEN 60
    ELSE 0

\* C28: for every non-empty transaction set with f fraud transactions out of
\* n the fraud-history score is 100 when f/n >= 0.5, 80 when
\* 0.1 <= f/n < 0.5, 60 when 0 < f/n < 0.1 and 0 when f = 0, the boundaries
\* inclusive; the score is the same in the components of a risk profile.
C28_FraudStepFunction ==
    customer_data.rows # <<>> =>
        /\ score_ret.op = "calculate_fraud_history_score" =>
               score_ret.value
                   = StatedFraudScore(ColumnSum(customer_data.rows, "isFraud"),
                                      Len(customer_data.rows))
        /\ score_ret.op = "calculate_customer_risk_score" =>
               score_ret.value.components.fraud_history
                   = 100 * StatedFraudScore(ColumnSum(customer_data.rows, "isFraud"),
                                            Len(customer_data.rows))

\* exactly 1 fraud in 10 transactions has been scored 80
C28_Witness ==
    /\ score_ret.op = "calculate_fraud_history_score"
    /\ Len(customer_data.rows) = 10
    /\ ColumnSum(customer_data.rows, "isFraud") = 1
    /\ score_ret.value = 80

\* the rows of the log that are CASE_CREATED actions of one case_id
CreatedActions(log, case_id) ==
    {k \in 1..Len(log) : /\ log[k].case_id = case_id
                          /\ log[k].action_type = "CASE_CREATED"}

\* what close_case(case_id, resolution, analyst_name) appends for a case that
\* exists and is not closed: the log grows by exactly two rows of that case,
\* STATUS_CHANGED by SYSTEM from the old status to CLOSED, then CASE_CLOSED
\* by the given analyst with the given resolution
ClosingActionsAppended(case_id, resolution, analyst_name) ==
    LET n   == Len(case_actions)
        old == cases[RowOf(cases, case_id)].status
    IN  /\ Len(case_actions') = n + 2
        /\ SubSeq(case_actions', 1, n) = case_actions
        /\ case_actions'[n + 1].case_id = case_id
        /\ case_actions'[n + 1].action_type = "STATUS_CHANGED"
        /\ case_actions'[n + 1].analyst_name = "SYSTEM"
        /\ case_actions'[n + 1].description[2] = old
        /\ case_actions'[n + 1].description[3] = "CLOSED"
        /\ case_actions'[n + 2].case_id = case_id
        /\ case_actions'[n + 2].action_type = "CASE_CLOSED"
        /\ case_actions'[n + 2].analyst_name = analyst_name
        /\ case_actions'[n + 2].description[2] = resolution

\* C29: close_case on an existing case that is not yet closed appends exactly
\* two actions for that case, a STATUS_CHANGED action by SYSTEM recording the
\* old status and CLOSED, then a CASE_CLOSED action with the given
\* analyst_name and resolution; and in every reachable state each case in the
\* case table has exactly one CASE_CREATED action in the log.
C29_CloseAppendsTwoActions ==
    /\ [](\A i \in 1..Len(cases) :
              Cardinality(CreatedActions(case_actions, cases[i].case_id)) = 1)
    /\ [][\A id \in CaseIdArgs, r \in ResolutionArgs, a \in AnalystArgs :
              (/\ close_case(id, r, a)
               /\ Known(cases, id)
               /\ cases[RowOf(cases, id)].status # "CLOSED")
                  => ClosingActionsAppended(id, r, a)]_vars

\* close_case has closed a case that was open: its three actions are in the
\* log, the last one by an analyst
C29_Witness ==
    /\ ret.op = "close_case"
    /\ Len(case_actions) = 3
    /\ \E i \in 1..Len(cases) :
           /\ cases[i].status = "CLOSED"
           /\ \A k \in 1..3 : case_actions[k].case_id = cases[i].case_id
           /\ case_actions[1].action_type = "CASE_CREATED"
           /\ case_actions[2].action_type = "STATUS_CHANGED"
           /\ case_actions[2].analyst_name = "SYSTEM"
           /\ case_actions[3].action_type = "CASE_CLOSED"
           /\ case_actions[3].analyst_name \in AnalystArgs

\* the number of alerts one pass over a batch is to yield: one per rule that
\* a record triggers
RECURSIVE TriggeredCount(_)
TriggeredCount(rows) ==
    IF rows = <<>> THEN 0
    ELSE Cardinality(Triggered(Head(rows))) + TriggeredCount(Tail(rows))

\* C22: alerts are never deduplicated.  Every pass of generate_alerts over the
\* same profiles that returns yields the alerts of one pass again, each with
\* status OPEN and an alert_id that no earlier alert has; process_alerts adds
\* every alert of the batch to the active alerts, also when alerts of the same
\* customer and type are still open there, and nothing else changes their
\* number, so the number of active alerts is the sum of the sizes of the
\* batches processed so far.
C22_NoDeduplication ==
    [][/\ (GenerateAlerts /\ alert_ret'.raised = "none") =>
              /\ Len(new_alerts') = TriggeredCount(profiles)
              /\ \A k \in 1..Len(new_alerts') :
                     /\ new_alerts'[k].status = "OPEN"
                     /\ new_alerts'[k].alert_id > alert_uuids
                     /\ \A j \in 1..Len(new_alerts') :
                            j # k => new_alerts'[j].alert_id # new_alerts'[k].alert_id
                     /\ \A j \in 1..Len(active_alerts) :
                            active_alerts[j].alert_id # new_alerts'[k].alert_id
                     /\ \A j \in 1..Len(new_alerts) :
                            new_alerts[j].alert_id # new_alerts'[k].alert_id
       /\ ProcessAlerts => active_alerts' = active_alerts \o new_alerts
       /\ ~ProcessAlerts => Len(active_alerts') = Len(active_alerts)]_vars

\* two passes over the same profiles have been processed: two open alerts of
\* the same customer and type with different ids are active
C22_Witness ==
    /\ alert_ret.op = "process_alerts"
    /\ Len(active_alerts) >= 2
    /\ active_alerts[1].customer_id = active_alerts[2].customer_id
    /\ active_alerts[1].alert_type = active_alerts[2].alert_type
    /\ active_alerts[1].alert_id # active_alerts[2].alert_id
    /\ active_alerts[1].status = "OPEN" /\ active_alerts[2].status = "OPEN"
    /\ Len(profiles) = 1

\* C23: a failure while evaluating one customer aborts the evaluation for
\* that customer only: generate_alerts returns, with the alerts of every
\* customer of the batch whose record can be evaluated.
C23_FailureIsolated ==
    alert_ret.op = "generate_alerts" =>
        /\ alert_ret.raised = "none"
        /\ \A i \in 1..Len(profiles) :
               Evaluable(profiles[i]) =>
                   \A ty \in Triggered(profiles[i]) :
                       \E k \in 1..Len(alert_ret.value) :
                           /\ alert_ret.value[k].customer_id = profiles[i].customer_id
                           /\ alert_ret.value[k].alert_type = ty

\* the rows of a table of alerts that have priority CRITICAL or HIGH
HighRows(table) ==
    {k \in 1..Len(table) : table[k].priority \in {"CRITICAL", "HIGH"}}

\* C30: close_alert changes only the alerts whose alert_id matches (status to
\* CLOSED, closed_at, resolution_notes) and nothing for an unknown alert_id;
\* no alert is ever removed, so the active alerts always number as many as
\* the alert history; get_alert_summary's total counts the closed alerts
\* too, get_high_priority_alerts returns the CRITICAL and HIGH alerts closed
\* or not, and a status that is CLOSED stays CLOSED.
C30_CloseAlertOnlyCloses ==
    /\ [](Len(active_alerts) = Len(alert_history))
    /\ [][/\ \A id \in AlertIdArgs, notes \in NotesArgs :
               CloseAlert(id, notes) =>
                   /\ Len(active_alerts') = Len(active_alerts)
                   /\ alert_history' = alert_history
                   /\ \A k \in 1..Len(active_alerts) :
                          active_alerts'[k] =
                              IF active_alerts[k].alert_id = id
                              THEN [active_alerts[k] EXCEPT
                                       !.status = "CLOSED",
                                       !.closed_at = clock,
                                       !.resolution_notes = notes]
                              ELSE active_alerts[k]
          /\ Len(active_alerts') >= Len(active_alerts)
          /\ \A k \in 1..Len(active_alerts) :
                 /\ active_alerts'[k].alert_id = active_alerts[k].alert_id
                 /\ active_alerts[k].status = "CLOSED"
                        => active_alerts'[k].status = "CLOSED"
          /\ GetAlertSummary => alert_ret'.value.total = Len(active_alerts)
          /\ GetHighPriorityAlerts =>
                 /\ Len(alert_ret'.value) = Cardinality(HighRows(active_alerts))
                 /\ \A k \in HighRows(active_alerts) :
                        \E j \in 1..Len(alert_ret'.value) :
                            alert_ret'.value[j] = active_alerts[k]]_vars

\* get_high_priority_alerts has returned an alert that close_alert had closed,
\* while another alert is still open
C30_Witness ==
    /\ alert_ret.op = "get_high_priority_alerts"
    /\ \E j \in 1..Len(alert_ret.value) :
           /\ alert_ret.value[j].status = "CLOSED"
           /\ alert_ret.value[j].resolution_notes \in NotesArgs
    /\ \E k \in 1..Len(active_alerts) : active_alerts[k].status = "OPEN"

====
